---- MODULE Spec2Model ----
(***************************************************************************)
(* State-machine model of the client-intake form's document preview and    *)
(* annotation engine (src/components/ClientIntakeForm.tsx).                *)
(*                                                                         *)
(* Every useState cell the engine reads or writes is a variable; every     *)
(* event handler is one action.  React runs a handler to completion on the *)
(* state captured by the render that created it, and every render creates  *)
(* fresh handlers (the keyboard effect lists all the state it reads in its *)
(* dependency array), so an action reads the unprimed variables and writes *)
(* the primed ones.  setX(prev => ...) updaters, which run on the latest    *)
(* state, coincide with that here because an action is atomic.             *)
(*                                                                         *)
(* Environment:                                                            *)
(*   - Math.random().toString(36).substr(2, 9) is modelled as a generator  *)
(*     that never repeats a value (nextId): the k-th id drawn is k.        *)
(*   - Date.now() reads the variable clock, which Tick may advance between *)
(*     two handlers; two reads may return the same value.  Times are       *)
(*     counted in units of 1000 ms.                                        *)
(*   - zoom is counted in quarters (zoom = 4 is the factor 1.0): every     *)
(*     value the code produces is a multiple of 0.25, exact in a double.   *)
(*   - percentages are exact rationals <<numerator, denominator>>.         *)
(*   - lastOp is an observer: a specification records in it which handler  *)
(*     ran last; no handler reads or writes it.                            *)
(***************************************************************************)
EXTENDS Integers, Sequences, FiniteSets, TLC

VARIABLES
  documents,              \* AttachedDocument[]                       (l.117)
  previewDoc,             \* AttachedDocument | null                  (l.121)
  sortCriterion,          \* 'name' | 'date' | 'expiry'               (l.124)
  sortDirection,          \* 'asc' | 'desc'                           (l.125)
  searchTerm,             \* string                                   (l.127)
  isBulkMode,             \* boolean                                  (l.131)
  selectedDocTimestamps,  \* Set<number>                              (l.132)
  bulkAnnotationText,     \* string                                   (l.133)
  activeTool,             \* AnnotationType | null                    (l.137)
  activeAnnotationId,     \* string | null                            (l.138)
  annotationText,         \* string, the draft buffer                 (l.139)
  pdfSearchQuery,         \* string                                   (l.140)
  pdfSearchResults,       \* string | null                            (l.141)
  isSearchingInPdf,       \* boolean                                  (l.142)
  collapsedAnnotations,   \* Set<string>                              (l.143)
  isDrawing,              \* boolean                                  (l.146)
  drawStart,              \* {x, y}                                   (l.147)
  currentDraw,            \* {x, y, w?, h?, ex?, ey?} | null          (l.148)
  zoom,                   \* number, in quarters                      (l.158)
  rotation,               \* number, degrees                          (l.159)
  pan,                    \* {x, y}, pixels                           (l.160)
  isDraggingImage,        \* boolean                                  (l.161)
  dragStartPos,           \* ref {x, y}, pixels                       (l.162)
  uploadingFiles,         \* UploadingFile[]                          (l.118)
  fileErrors,             \* string[]                                 (l.122)
  fullName,               \* formData.fullName                        (l.110)
  formData,               \* formData, the fields besides fullName    (l.111)
  selectedCountryCode,    \* string                                   (l.116)
  emailError,             \* string                                   (l.123)
  submitted,              \* the argument of the last onSubmit call   (l.836)
  isParsing,              \* boolean                                  (l.128)
  pendingParses,          \* handlePdfAutoFill calls in flight
  isCameraOpen,           \* boolean                                  (l.151)
  capturedImage,          \* string | null, the data URL              (l.153)
  messages,               \* App: ChatMessage[]                   (App.tsx l.75)
  isLoading,              \* App: boolean                         (App.tsx l.76)
  error,                  \* App: {message, isTransient} | null   (App.tsx l.77)
  showIntakeForm,         \* App: boolean                         (App.tsx l.78)
  chatRequests,           \* App: sendMessage calls in flight
  input,                  \* ChatInput: string                  (ChatInput l.61)
  isListening,            \* ChatInput: boolean                 (ChatInput l.62)
  recognition,            \* the browser's SpeechRecognition of recognitionRef:
                          \* "idle", "running" or "stopping"      (ChatInput l.72)
  batches,                \* handleFiles calls whose reads are pending
  pendingSearches,        \* generateContent calls of handlePdfSearch in flight
  nextId,                 \* the next annotation id Math.random yields
  nextFileId,             \* the next upload id Math.random yields
  clock,                  \* the value Date.now() returns
  lastOp                  \* the handler that ran last

docVars    == <<documents, previewDoc>>
listVars   == <<sortCriterion, sortDirection, searchTerm>>
bulkVars   == <<isBulkMode, selectedDocTimestamps, bulkAnnotationText>>
annVars    == <<activeTool, activeAnnotationId, annotationText, collapsedAnnotations>>
searchVars == <<pdfSearchQuery, pdfSearchResults, isSearchingInPdf, pendingSearches>>
drawVars   == <<isDrawing, drawStart, currentDraw>>
viewVars   == <<zoom, rotation, pan, isDraggingImage, dragStartPos>>
uploadVars == <<uploadingFiles, fileErrors, batches>>
captureVars == <<isParsing, pendingParses, isCameraOpen, capturedImage>>
chatVars   == <<messages, isLoading, error, showIntakeForm, chatRequests, input, isListening,
                recognition>>
formVars   == <<fullName, formData, selectedCountryCode, emailError, submitted, captureVars,
                chatVars>>
envVars    == <<nextId, nextFileId, clock>>

vars == <<docVars, listVars, bulkVars, annVars, searchVars, drawVars, viewVars,
          uploadVars, formVars, envVars, lastOp>>

(***************************************************************************)
(* Bounds of the model.                                                    *)
(***************************************************************************)
\* annotation ids drawn in one run
MaxIds == 2
\* largest value of the clock
MaxClock == 2
\* documents in the collection
MaxDocs == 2
\* largest |pan.x|, |pan.y| a drag may produce
MaxPan == 100
\* handlePdfSearch requests in flight
MaxPending == 1
\* chat messages sent and received in one run
MaxMessages == 5
\* upload ids drawn in one run
MaxFileIds == 2
\* the magnification (in quarters) the viewport specifications zoom in to
MaxZoom == 5
\* annotations drawn in the specifications that vary the viewport
\* longest run of consecutive handleZoomIn calls that is counted
ZoomRun == 20
\* longest run of consecutive handleRotate calls that is counted
RotateRun == 4
\* consecutive toggleSort calls that are remembered
SortRun == 3
MaxDrawn == 1
\* the latest time at which a read of the list's one batch completes
MaxListClock == 3

(***************************************************************************)
(* Program constants.                                                      *)
(***************************************************************************)
\* 10 * 1024 * 1024
MAX_FILE_SIZE_BYTES == 10485760
\* 30 * 24 * 60 * 60 * 1000 ms; the clock and every timestamp are counted in
\* units of 1000 ms, which keeps the sum within TLC's 32-bit integers
RETENTION_PERIOD_MS == 2592000
ALLOWED_MIME_TYPES ==
  { "application/pdf",
    "application/vnd.openxmlformats-officedocument.wordprocessingml.document",
    "image/jpeg",
    "image/jpg" }
\* useState(1), setZoom(1): 1.0 = 4 quarters
ZoomDefault == 4
\* prev + 0.25, prev - 0.25
ZoomStep == 1
\* Math.min(..., 5)
ZoomMax == 20
\* Math.max(..., 0.25)
ZoomMin == 1

(***************************************************************************)
(* Values.                                                                 *)
(***************************************************************************)
\* null, for the cells that hold an object or null
Null == [null |-> TRUE]
\* activeTool === null, activeAnnotationId === null
NoTool == "null"
NoId == 0
\* an optional number that is undefined or absent
Undefined == <<>>

Abs(n) == IF n < 0 THEN 0 - n ELSE n

RECURSIVE Gcd(_, _)
Gcd(a, b) == IF b = 0 THEN a ELSE Gcd(b, a % b)

\* the number n / d (d > 0) in lowest terms
Frac(n, d) ==
  LET g == Gcd(Abs(n), d) IN <<n \div g, d \div g>>

RLess(a, b) == a[1] * b[2] < b[1] * a[2]
\* Math.min, Math.abs and subtraction on numbers
RMin(a, b) == IF RLess(b, a) THEN b ELSE a
RSub(a, b) == Frac(a[1] * b[2] - b[1] * a[2], a[2] * b[2])
RAbs(a) == <<Abs(a[1]), a[2]>>
RMul(a, b) == Frac(a[1] * b[1], a[2] * b[2])
\* a / b for b > 0
RDiv(a, b) == Frac(a[1] * b[2], a[2] * b[1])
RInt(n) == <<n, 1>>

Range(s) == { s[i] : i \in 1..Len(s) }

\* Array.prototype.filter
SeqFilter(s, Keep(_)) == SelectSeq(s, Keep)

\* Array.prototype.map
SeqMap(s, F(_)) == [i \in 1..Len(s) |-> F(s[i])]

\* s.trim(), on the strings of the model: none has a blank at one end only
Trim(s) == IF s \in {"", " ", "  "} THEN "" ELSE s

(***************************************************************************)
(* Records.                                                                *)
(***************************************************************************)
\* the files a chooser, a drop or a camera can hand over
PdfA   == [name |-> "a.pdf", type |-> "application/pdf", size |-> 2048, content |-> "A"]
PdfB   == [name |-> "b.pdf", type |-> "application/pdf", size |-> 1024, content |-> "E"]
JpgB   == [name |-> "B.jpg", type |-> "image/jpeg", size |-> 4096, content |-> "B"]
PdfC   == [name |-> "c.pdf", type |-> "application/pdf", size |-> MAX_FILE_SIZE_BYTES, content |-> "C"]
BigPdf == [name |-> "big.pdf", type |-> "application/pdf", size |-> MAX_FILE_SIZE_BYTES + 1, content |-> "D"]
Txt    == [name |-> "t.txt", type |-> "text/plain", size |-> 16, content |-> "T"]

\* AttachedDocument, as reader.onload builds it
NewDocument(file, now) ==
  [ name        |-> file.name,
    type        |-> file.type,
    size        |-> file.size,
    data        |-> file.content,
    uploadedAt  |-> now,
    expiresAt   |-> now + RETENTION_PERIOD_MS,
    annotations |-> <<>> ]

\* formData.fullName || 'User'
Author == IF fullName = "" THEN "User" ELSE fullName

\* the k-th id of the generator
Id(k) == k

AnnotationIds(doc) == { doc.annotations[i].id : i \in 1..Len(doc.annotations) }

FindAnnotation(doc, id) ==
  LET hits == SeqFilter(doc.annotations, LAMBDA a : a.id = id)
  IN  IF hits = <<>> THEN Null ELSE Head(hits)

(***************************************************************************)
(* Geometry.                                                               *)
(***************************************************************************)
\* The border box, in client pixels, that the document element has before its
\* transform is applied.
Layout == [left |-> 100, top |-> 100, width |-> 200, height |-> 100]

\* docElementRef.current.getBoundingClientRect() under
\* transform: translate(pan) scale(zoom) rotate(rotation), origin center:
\* the box keeps its centre, moved by pan; its sides are scaled by zoom and
\* swapped by a quarter turn.
BoundingClientRect ==
  LET turned == rotation \in {90, 270}
      w  == IF turned THEN Layout.height ELSE Layout.width
      h  == IF turned THEN Layout.width ELSE Layout.height
      cx == Frac(2 * (Layout.left + pan.x) + Layout.width, 2)
      cy == Frac(2 * (Layout.top + pan.y) + Layout.height, 2)
      rw == Frac(w * zoom, 4)
      rh == Frac(h * zoom, 4)
  IN  [ left   |-> RSub(cx, RDiv(rw, RInt(2))),
        top    |-> RSub(cy, RDiv(rh, RInt(2))),
        width  |-> rw,
        height |-> rh ]

\* The pointer event of a press on the point of the document content that
\* lies pt.u percent from the left and pt.v percent from the top of the
\* untransformed element: the point is displayed where
\* transform: translate(pan) scale(zoom) rotate(rotation), origin center,
\* carries it (quarter turns are clockwise).
PointerAt(pt) ==
  LET dx == ((2 * pt.u - 100) * Layout.width) \div 200
      dy == ((2 * pt.v - 100) * Layout.height) \div 200
      rx == CASE rotation = 0   -> dx
               [] rotation = 90  -> -dy
               [] rotation = 180 -> -dx
               [] rotation = 270 -> dy
      ry == CASE rotation = 0   -> dy
               [] rotation = 90  -> dx
               [] rotation = 180 -> -dy
               [] rotation = 270 -> -dx
  IN  [ clientX |-> Layout.left + Layout.width \div 2 + pan.x + (zoom * rx) \div 4,
        clientY |-> Layout.top + Layout.height \div 2 + pan.y + (zoom * ry) \div 4 ]

\* PointerPercent that clamps the coordinate to 0..100
PointerPercent_Clamped(e) ==
  LET rect == BoundingClientRect
      Clamp(v) == IF RLess(v, RInt(0)) THEN RInt(0)
                  ELSE IF RLess(RInt(100), v) THEN RInt(100) ELSE v
  IN  [ x |-> Clamp(RMul(RDiv(RSub(RInt(e.clientX), rect.left), rect.width), RInt(100))),
        y |-> Clamp(RMul(RDiv(RSub(RInt(e.clientY), rect.top), rect.height), RInt(100))) ]

\* ((e.clientX - rect.left) / rect.width) * 100, and the same for y
PointerPercent(e) ==
  LET rect == BoundingClientRect
  IN  [ x |-> RMul(RDiv(RSub(RInt(e.clientX), rect.left), rect.width), RInt(100)),
        y |-> RMul(RDiv(RSub(RInt(e.clientY), rect.top), rect.height), RInt(100)) ]

\* a rect preview anchored at the start point
RectPreview_FromStart(start, cur) ==
  [ x  |-> start.x,
    y  |-> start.y,
    w  |-> RAbs(RSub(cur.x, start.x)),
    h  |-> RAbs(RSub(cur.y, start.y)),
    ex |-> Undefined,
    ey |-> Undefined ]

\* the live preview of a rect: l.384-389
RectPreview(start, cur) ==
  [ x  |-> RMin(start.x, cur.x),
    y  |-> RMin(start.y, cur.y),
    w  |-> RAbs(RSub(cur.x, start.x)),
    h  |-> RAbs(RSub(cur.y, start.y)),
    ex |-> Undefined,
    ey |-> Undefined ]

\* the live preview of an arrow: l.391-396
ArrowPreview(start, cur) ==
  [ x  |-> start.x,
    y  |-> start.y,
    w  |-> Undefined,
    h  |-> Undefined,
    ex |-> cur.x,
    ey |-> cur.y ]

\* setCurrentDraw({ x, y }) on pointer-down: l.364
PointPreview(p) ==
  [ x |-> p.x, y |-> p.y, w |-> Undefined, h |-> Undefined,
    ex |-> Undefined, ey |-> Undefined ]

(***************************************************************************)
(* Initial state: the useState initialisers.                               *)
(***************************************************************************)
Init ==
  /\ documents = <<>>
  /\ previewDoc = Null
  /\ sortCriterion = "date"
  /\ sortDirection = "desc"
  /\ searchTerm = ""
  /\ isBulkMode = FALSE
  /\ selectedDocTimestamps = {}
  /\ bulkAnnotationText = ""
  /\ activeTool = NoTool
  /\ activeAnnotationId = NoId
  /\ annotationText = ""
  /\ pdfSearchQuery = ""
  /\ pdfSearchResults = Null
  /\ isSearchingInPdf = FALSE
  /\ collapsedAnnotations = {}
  /\ isDrawing = FALSE
  /\ drawStart = [x |-> RInt(0), y |-> RInt(0)]
  /\ currentDraw = Null
  /\ zoom = ZoomDefault
  /\ rotation = 0
  /\ pan = [x |-> 0, y |-> 0]
  /\ isDraggingImage = FALSE
  /\ dragStartPos = [x |-> 0, y |-> 0]
  /\ uploadingFiles = <<>>
  /\ fileErrors = <<>>
  /\ fullName = ""
  /\ formData = [email |-> "", phone |-> "", caseType |-> "", caseDetails |-> ""]
  /\ selectedCountryCode = "+254"
  /\ emailError = ""
  /\ submitted = Null
  /\ isParsing = FALSE
  /\ pendingParses = <<>>
  /\ isCameraOpen = FALSE
  /\ capturedImage = Null
  /\ messages = <<[sender |-> "model", text |-> "welcome"]>>
  /\ isLoading = FALSE
  /\ error = Null
  /\ showIntakeForm = FALSE
  /\ chatRequests = <<>>
  /\ input = ""
  /\ isListening = FALSE
  /\ recognition = "idle"
  /\ batches = <<>>
  /\ pendingSearches = <<>>
  /\ nextId = 1
  /\ nextFileId = 1
  /\ clock = 1
  /\ lastOp = <<"init">>

(***************************************************************************)
(* Environment.                                                            *)
(***************************************************************************)
\* time passes between two handlers
TickTo(max) ==
  /\ clock < max
  /\ clock' = clock + 1
  /\ UNCHANGED <<docVars, listVars, bulkVars, annVars, searchVars, drawVars,
                 viewVars, uploadVars, formVars, nextId, nextFileId>>

Tick == TickTo(MaxClock)

(***************************************************************************)
(* Upload pipeline.                                                        *)
(***************************************************************************)
FileIsValid(file) ==
  /\ file.type \in ALLOWED_MIME_TYPES
  /\ ~(file.size > MAX_FILE_SIZE_BYTES)

\* the message handleFiles pushes for a file it turns away, "" for none
FileError(file) ==
  IF file.type \notin ALLOWED_MIME_TYPES THEN <<"not supported", file.name>>
  ELSE IF file.size > MAX_FILE_SIZE_BYTES THEN <<"exceeds the 10MB limit", file.name>>
  ELSE <<>>

\* handleFiles up to its await: validation, then processFile on every valid
\* file, which registers the upload and starts the read.
handleFiles(files) ==
  LET validFiles == SeqFilter(files, FileIsValid)
      errors     == SeqMap(SeqFilter(files, LAMBDA f : ~FileIsValid(f)), FileError)
      reads      == [i \in 1..Len(validFiles) |->
                       [ file       |-> validFiles[i],
                         id         |-> nextFileId + i - 1,
                         status     |-> "reading",
                         uploadedAt |-> 0 ]]
  IN  /\ fileErrors' = errors
      /\ uploadingFiles' = uploadingFiles \o
           [i \in 1..Len(reads) |->
              [id |-> reads[i].id, name |-> reads[i].file.name, progress |-> 0]]
      /\ batches' = IF validFiles = <<>> THEN batches
                    ELSE Append(batches, [reads |-> reads, rejected |-> FALSE])
      /\ nextFileId' = nextFileId + Len(validFiles)
      /\ UNCHANGED <<docVars, listVars, bulkVars, annVars, searchVars, drawVars,
                     viewVars, formVars, nextId, clock>>

RemoveAt(s, i) == SubSeq(s, 1, i - 1) \o SubSeq(s, i + 1, Len(s))

Settled(batch) == \A i \in 1..Len(batch.reads) : batch.reads[i].status # "reading"

\* the batch table after read i of batch b took the given status: a batch all
\* of whose reads have settled is forgotten
BatchesAfter(b, i, status, now) ==
  LET batch == [batches[b] EXCEPT !.reads[i].status = status,
                                  !.reads[i].uploadedAt = now,
                                  !.rejected = @ \/ status = "failed"]
  IN  IF Settled(batch) THEN RemoveAt(batches, b)
      ELSE [batches EXCEPT ![b] = batch]

\* reader.onload of read i of batch b; when it is the last read of a batch in
\* which none failed, Promise.all resolves and handleFiles appends the batch.
readerOnload(b, i) ==
  LET batch == batches[b]
      read  == batch.reads[i]
      done  == [batch EXCEPT !.reads[i].status = "loaded",
                             !.reads[i].uploadedAt = clock]
      processedDocs == [k \in 1..Len(done.reads) |->
                          NewDocument(done.reads[k].file, done.reads[k].uploadedAt)]
  IN  /\ read.status = "reading"
      /\ uploadingFiles' = SeqFilter(uploadingFiles, LAMBDA f : f.id # read.id)
      /\ batches' = BatchesAfter(b, i, "loaded", clock)
      /\ documents' = IF Settled(done) /\ ~done.rejected
                      THEN documents \o processedDocs
                      ELSE documents
      /\ UNCHANGED <<previewDoc, listVars, bulkVars, annVars, searchVars, drawVars,
                     viewVars, fileErrors, formVars, envVars>>

\* reader.onerror of read i of batch b; the first failure of a batch rejects
\* Promise.all and handleFiles reports it.
readerOnerror(b, i) ==
  LET batch == batches[b]
      read  == batch.reads[i]
  IN  /\ read.status = "reading"
      /\ uploadingFiles' = SeqFilter(uploadingFiles, LAMBDA f : f.id # read.id)
      /\ batches' = BatchesAfter(b, i, "failed", 0)
      /\ fileErrors' = IF batch.rejected THEN fileErrors
                       ELSE Append(fileErrors, <<"One or more files failed to process">>)
      /\ UNCHANGED <<docVars, listVars, bulkVars, annVars, searchVars, drawVars,
                     viewVars, formVars, envVars>>

(***************************************************************************)
(* Document list.                                                          *)
(***************************************************************************)
\* The UTF-16 code units of the file names and search texts of the model.
Chars(s) ==
  CASE s = ""        -> <<>>
    [] s = "a.pdf"   -> <<97, 46, 112, 100, 102>>
    [] s = "b.pdf"   -> <<98, 46, 112, 100, 102>>
    [] s = "c.pdf"   -> <<99, 46, 112, 100, 102>>
    [] s = "B.jpg"   -> <<66, 46, 106, 112, 103>>
    [] s = "big.pdf" -> <<98, 105, 103, 46, 112, 100, 102>>
    [] s = "t.txt"   -> <<116, 46, 116, 120, 116>>
    [] s = "b"       -> <<98>>
    [] s = "pdf"     -> <<112, 100, 102>>
    [] s = "PD"      -> <<80, 68>>
    [] s = " "       -> <<32>>
    [] s = "  "      -> <<32, 32>>
    [] s = "tag"     -> <<116, 97, 103>>
    [] s = "ann"     -> <<97, 110, 110>>
    [] s = "ann@x.io" -> <<97, 110, 110, 64, 120, 46, 105, 111>>
    [] s = "0712"    -> <<48, 55, 49, 50>>
    [] s = "+254"    -> <<43, 50, 53, 52>>
    [] s = "+1"      -> <<43, 49>>

\* String.prototype.toLowerCase on code units: A-Z go to a-z
ToLowerCase(cs) == [i \in 1..Len(cs) |-> IF cs[i] \in 65..90 THEN cs[i] + 32 ELSE cs[i]]

\* String.prototype.includes: the needle occurs at some offset
Includes(hay, needle) ==
  \E k \in 0..(Len(hay) - Len(needle)) : SubSeq(hay, k + 1, k + Len(needle)) = needle

\* the order of two code unit sequences, first difference deciding and a
\* proper prefix coming first: -1, 0 or 1
RECURSIVE CodeUnitCompare(_, _)
CodeUnitCompare(a, b) ==
  IF a = <<>> /\ b = <<>> THEN 0
  ELSE IF a = <<>> THEN -1
  ELSE IF b = <<>> THEN 1
  ELSE IF Head(a) < Head(b) THEN -1
  ELSE IF Head(a) > Head(b) THEN 1
  ELSE CodeUnitCompare(Tail(a), Tail(b))

\* a.localeCompare(b) with the default collation, on the names of the model:
\* the letters decide regardless of case, punctuation before digits before
\* letters; names equal up to case are ordered lower case first.
LocaleCompare(a, b) ==
  LET primary == CodeUnitCompare(ToLowerCase(Chars(a)), ToLowerCase(Chars(b)))
  IN  IF primary # 0 THEN primary ELSE -CodeUnitCompare(Chars(a), Chars(b))

\* doc.name.toLowerCase().includes(searchTerm.toLowerCase())
NameMatches(name, term) ==
  Includes(ToLowerCase(Chars(name)), ToLowerCase(Chars(term)))

\* the documents the list renders a row for (the filter of sortedDocuments)
ListedDocuments == SeqFilter(documents, LAMBDA d : NameMatches(d.name, searchTerm))

\* a comparator that takes the difference of the names' lengths
Comparison_ByLength(a, b, criterion, direction) ==
  LET comparison ==
        IF criterion = "name" THEN Len(Chars(a.name)) - Len(Chars(b.name))
        ELSE IF criterion = "expiry" THEN a.expiresAt - b.expiresAt
        ELSE IF criterion = "date" THEN a.uploadedAt - b.uploadedAt
        ELSE 0
  IN  IF direction = "asc" THEN comparison ELSE -comparison

\* a comparator that ignores the direction
Comparison_Ascending(a, b, criterion, direction) ==
  IF criterion = "name" THEN LocaleCompare(a.name, b.name)
  ELSE IF criterion = "expiry" THEN a.expiresAt - b.expiresAt
  ELSE IF criterion = "date" THEN a.uploadedAt - b.uploadedAt
  ELSE 0

\* the comparator handed to sort
Comparison(a, b, criterion, direction) ==
  LET comparison ==
        IF criterion = "name" THEN LocaleCompare(a.name, b.name)
        ELSE IF criterion = "expiry" THEN a.expiresAt - b.expiresAt
        ELSE IF criterion = "date" THEN a.uploadedAt - b.uploadedAt
        ELSE 0
  IN  IF direction = "asc" THEN comparison ELSE -comparison

\* Array.prototype.sort, which is stable: each element goes behind the
\* elements before it that the comparator does not put after it
RECURSIVE SortedBy(_, _, _)
SortedBy(docs, criterion, direction) ==
  IF docs = <<>> THEN <<>>
  ELSE LET sorted == SortedBy(SubSeq(docs, 1, Len(docs) - 1), criterion, direction)
           x      == docs[Len(docs)]
           k      == Cardinality({ i \in 1..Len(sorted) :
                                     Comparison(sorted[i], x, criterion, direction) <= 0 })
       IN  SubSeq(sorted, 1, k) \o <<x>> \o SubSeq(sorted, k + 1, Len(sorted))

\* the sortedDocuments memo: filter, then sort
sortedDocuments == SortedBy(ListedDocuments, sortCriterion, sortDirection)

\* the search input of the list and its clear button
setSearchTerm(term) ==
  /\ documents # <<>>
  /\ searchTerm' = term
  /\ UNCHANGED <<docVars, sortCriterion, sortDirection, bulkVars, annVars, searchVars,
                 drawVars, viewVars, uploadVars, formVars, envVars>>

\* toggleSort that flips the direction on every call
toggleSort_AlwaysFlip(criterion) ==
  /\ documents # <<>>
  /\ sortCriterion' = criterion
  /\ sortDirection' = IF sortDirection = "asc" THEN "desc" ELSE "asc"
  /\ UNCHANGED <<docVars, searchTerm, bulkVars, annVars, searchVars, drawVars,
                 viewVars, uploadVars, formVars, envVars>>

\* toggleSort that never flips the direction of the active criterion
toggleSort_NoFlip(criterion) ==
  /\ documents # <<>>
  /\ IF sortCriterion = criterion
     THEN UNCHANGED <<sortCriterion, sortDirection>>
     ELSE /\ sortCriterion' = criterion
          /\ sortDirection' = IF criterion = "name" THEN "asc" ELSE "desc"
  /\ UNCHANGED <<docVars, searchTerm, bulkVars, annVars, searchVars, drawVars,
                 viewVars, uploadVars, formVars, envVars>>

\* the three sort buttons: rendered when the collection is not empty
toggleSort(criterion) ==
  /\ documents # <<>>
  /\ IF sortCriterion = criterion
     THEN /\ sortDirection' = IF sortDirection = "asc" THEN "desc" ELSE "asc"
          /\ UNCHANGED sortCriterion
     ELSE /\ sortCriterion' = criterion
          /\ sortDirection' = IF criterion = "name" THEN "asc" ELSE "desc"
  /\ UNCHANGED <<docVars, searchTerm, bulkVars, annVars, searchVars, drawVars,
                 viewVars, uploadVars, formVars, envVars>>

\* opening the preview without disarming the tool
handleOpenPreview_KeepTool(doc) ==
  /\ ~isBulkMode
  /\ doc \in Range(ListedDocuments)
  /\ zoom' = ZoomDefault
  /\ rotation' = 0
  /\ pan' = [x |-> 0, y |-> 0]
  /\ previewDoc' = doc
  /\ pdfSearchQuery' = ""
  /\ pdfSearchResults' = Null
  /\ activeAnnotationId' = NoId
  /\ UNCHANGED <<documents, listVars, bulkVars, activeTool, annotationText,
                 collapsedAnnotations, isSearchingInPdf, pendingSearches, drawVars,
                 isDraggingImage, dragStartPos, uploadVars, formVars, envVars>>

\* the "Review Document" button of a row: rendered outside bulk mode
handleOpenPreview(doc) ==
  /\ ~isBulkMode
  /\ doc \in Range(ListedDocuments)
  /\ zoom' = ZoomDefault
  /\ rotation' = 0
  /\ pan' = [x |-> 0, y |-> 0]
  /\ previewDoc' = doc
  /\ pdfSearchQuery' = ""
  /\ pdfSearchResults' = Null
  /\ activeAnnotationId' = NoId
  /\ activeTool' = NoTool
  /\ UNCHANGED <<documents, listVars, bulkVars, annotationText, collapsedAnnotations,
                 isSearchingInPdf, pendingSearches, drawVars, isDraggingImage,
                 dragStartPos, uploadVars, formVars, envVars>>

\* the backdrop, the X button and "Close Analyzer": setPreviewDoc(null)
closePreview ==
  /\ previewDoc # Null
  /\ previewDoc' = Null
  /\ UNCHANGED <<documents, listVars, bulkVars, annVars, searchVars, drawVars,
                 viewVars, uploadVars, formVars, envVars>>

\* the "Remove" button of a row: rendered outside bulk mode
\* removeDocument that leaves the bulk selection alone
removeDocument_KeepSelection(uploadedAt) ==
  /\ ~isBulkMode
  /\ \E d \in Range(ListedDocuments) : d.uploadedAt = uploadedAt
  /\ documents' = SeqFilter(documents, LAMBDA doc : doc.uploadedAt # uploadedAt)
  /\ UNCHANGED <<previewDoc, listVars, bulkVars, annVars,
                 searchVars, drawVars, viewVars, uploadVars, formVars, envVars>>

removeDocument(uploadedAt) ==
  /\ ~isBulkMode
  /\ \E d \in Range(ListedDocuments) : d.uploadedAt = uploadedAt
  /\ documents' = SeqFilter(documents, LAMBDA doc : doc.uploadedAt # uploadedAt)
  /\ selectedDocTimestamps' = selectedDocTimestamps \ {uploadedAt}
  /\ UNCHANGED <<previewDoc, listVars, isBulkMode, bulkAnnotationText, annVars,
                 searchVars, drawVars, viewVars, uploadVars, formVars, envVars>>

(***************************************************************************)
(* Annotation store.                                                       *)
(***************************************************************************)
\* prev.map(d => d.uploadedAt === previewDoc.uploadedAt ? updatedDoc : d)
ReplacePreviewed(docs, updatedDoc) ==
  SeqMap(docs, LAMBDA d : IF d.uploadedAt = previewDoc.uploadedAt THEN updatedDoc ELSE d)

\* addAnnotation putting the new annotation in front
addAnnotation_Prepend(ann) ==
  IF previewDoc # Null
  THEN LET updatedDoc == [previewDoc EXCEPT !.annotations = <<ann>> \o @]
       IN  /\ previewDoc' = updatedDoc
           /\ documents' = ReplacePreviewed(documents, updatedDoc)
           /\ activeAnnotationId' = ann.id
           /\ annotationText' = ""
           /\ collapsedAnnotations' = collapsedAnnotations \ {ann.id}
  ELSE UNCHANGED <<previewDoc, documents, activeAnnotationId, annotationText,
                   collapsedAnnotations>>

\* addAnnotation(ann): the effect on the store cells (its callers set the rest)
addAnnotation(ann) ==
  IF previewDoc # Null
  THEN LET updatedDoc == [previewDoc EXCEPT !.annotations = Append(@, ann)]
       IN  /\ previewDoc' = updatedDoc
           /\ documents' = ReplacePreviewed(documents, updatedDoc)
           /\ activeAnnotationId' = ann.id
           /\ annotationText' = ""
           /\ collapsedAnnotations' = collapsedAnnotations \ {ann.id}
  ELSE UNCHANGED <<previewDoc, documents, activeAnnotationId, annotationText,
                   collapsedAnnotations>>

\* selectAnnotation(ann): the effect on the store cells
SelectAnnotation(ann) ==
  /\ activeAnnotationId' = ann.id
  /\ annotationText' = ann.text
  /\ collapsedAnnotations' = collapsedAnnotations \ {ann.id}

\* the pin button, the rect or line of an annotation, "Edit Mark"
selectAnnotation(ann) ==
  /\ previewDoc # Null
  /\ ann \in Range(previewDoc.annotations)
  /\ SelectAnnotation(ann)
  /\ UNCHANGED <<docVars, listVars, bulkVars, activeTool, searchVars, drawVars,
                 viewVars, uploadVars, formVars, envVars>>

\* the header of an annotation in the side panel
toggleAnnotationCollapse(id) ==
  /\ previewDoc # Null
  /\ id \in AnnotationIds(previewDoc)
  /\ collapsedAnnotations' = IF id \in collapsedAnnotations
                             THEN collapsedAnnotations \ {id}
                             ELSE collapsedAnnotations \cup {id}
  /\ UNCHANGED <<docVars, listVars, bulkVars, activeTool, activeAnnotationId,
                 annotationText, searchVars, drawVars, viewVars, uploadVars,
                 formVars, envVars>>

\* the draft textarea: setAnnotationText(e.target.value)
setAnnotationText(text) ==
  /\ previewDoc # Null
  /\ activeAnnotationId # NoId
  /\ annotationText' = text
  /\ UNCHANGED <<docVars, listVars, bulkVars, activeTool, activeAnnotationId,
                 collapsedAnnotations, searchVars, drawVars, viewVars, uploadVars,
                 formVars, envVars>>

\* saveAnnotationText: the effect on the store cells
SaveAnnotationText ==
  IF activeAnnotationId = NoId \/ previewDoc = Null
  THEN UNCHANGED <<docVars, activeAnnotationId, annotationText, collapsedAnnotations>>
  ELSE LET currentId  == activeAnnotationId
           updatedDoc == [previewDoc EXCEPT !.annotations =
                            SeqMap(@, LAMBDA a : IF a.id = currentId
                                                 THEN [a EXCEPT !.text = annotationText]
                                                 ELSE a)]
       IN  /\ previewDoc' = updatedDoc
           /\ documents' = ReplacePreviewed(documents, updatedDoc)
           /\ collapsedAnnotations' = collapsedAnnotations \cup {currentId}
           /\ activeAnnotationId' = NoId
           /\ annotationText' = ""

\* "Save & Close" and "Save": rendered while an annotation is active
saveAnnotationText ==
  /\ previewDoc # Null
  /\ activeAnnotationId # NoId
  /\ SaveAnnotationText
  /\ UNCHANGED <<listVars, bulkVars, activeTool, searchVars, drawVars, viewVars,
                 uploadVars, formVars, envVars>>

\* deleteAnnotation that leaves the active selection and the draft alone
DeleteAnnotation_KeepActive(id) ==
  IF previewDoc = Null
  THEN UNCHANGED <<docVars, activeAnnotationId, annotationText>>
  ELSE LET updatedDoc == [previewDoc EXCEPT !.annotations =
                            SeqFilter(@, LAMBDA a : a.id # id)]
       IN  /\ previewDoc' = updatedDoc
           /\ documents' = ReplacePreviewed(documents, updatedDoc)
           /\ UNCHANGED <<activeAnnotationId, annotationText>>

\* deleteAnnotation(id): the effect on the store cells
DeleteAnnotation(id) ==
  IF previewDoc = Null
  THEN UNCHANGED <<docVars, activeAnnotationId, annotationText>>
  ELSE LET updatedDoc == [previewDoc EXCEPT !.annotations =
                            SeqFilter(@, LAMBDA a : a.id # id)]
       IN  /\ previewDoc' = updatedDoc
           /\ documents' = ReplacePreviewed(documents, updatedDoc)
           /\ IF activeAnnotationId = id
              THEN /\ activeAnnotationId' = NoId
                   /\ annotationText' = ""
              ELSE UNCHANGED <<activeAnnotationId, annotationText>>

\* "Remove" in the edit panel (the active annotation) and "Delete" in the side
\* panel (an expanded annotation)
deleteAnnotation(id) ==
  /\ previewDoc # Null
  /\ \/ id # NoId /\ id = activeAnnotationId
     \/ id \in AnnotationIds(previewDoc) \ collapsedAnnotations
  /\ DeleteAnnotation(id)
  /\ UNCHANGED <<listVars, bulkVars, activeTool, collapsedAnnotations, searchVars,
                 drawVars, viewVars, uploadVars, formVars, envVars>>

\* cancelAnnotationEdit deciding on the draft buffer alone
CancelAnnotationEdit_DraftOnly ==
  IF activeAnnotationId = NoId \/ previewDoc = Null
  THEN UNCHANGED <<docVars, activeAnnotationId, annotationText, collapsedAnnotations>>
  ELSE IF annotationText = ""
       THEN /\ DeleteAnnotation(activeAnnotationId)
            /\ UNCHANGED collapsedAnnotations
       ELSE /\ collapsedAnnotations' = collapsedAnnotations \cup {activeAnnotationId}
            /\ activeAnnotationId' = NoId
            /\ annotationText' = ""
            /\ UNCHANGED docVars

\* cancelAnnotationEdit: the effect on the store cells
CancelAnnotationEdit ==
  IF activeAnnotationId = NoId \/ previewDoc = Null
  THEN UNCHANGED <<docVars, activeAnnotationId, annotationText, collapsedAnnotations>>
  ELSE LET currentAnn == FindAnnotation(previewDoc, activeAnnotationId)
       IN  IF currentAnn # Null /\ currentAnn.text = "" /\ annotationText = ""
           THEN /\ DeleteAnnotation(activeAnnotationId)
                /\ UNCHANGED collapsedAnnotations
           ELSE /\ collapsedAnnotations' = collapsedAnnotations \cup {activeAnnotationId}
                /\ activeAnnotationId' = NoId
                /\ annotationText' = ""
                /\ UNCHANGED docVars

\* "Cancel" in the edit panel
cancelAnnotationEdit ==
  /\ previewDoc # Null
  /\ activeAnnotationId # NoId
  /\ CancelAnnotationEdit
  /\ UNCHANGED <<listVars, bulkVars, activeTool, searchVars, drawVars, viewVars,
                 uploadVars, formVars, envVars>>

(***************************************************************************)
(* Draw interaction.                                                       *)
(***************************************************************************)
\* the three buttons of the annotation toolbar
selectTool(tool) ==
  /\ previewDoc # Null
  /\ activeTool' = IF activeTool = tool THEN NoTool ELSE tool
  /\ UNCHANGED <<docVars, listVars, bulkVars, activeAnnotationId, annotationText,
                 collapsedAnnotations, searchVars, drawVars, viewVars, uploadVars,
                 formVars, envVars>>

\* a pin placed at the corner used for bulk tags
NewPin_Corner(p) ==
  [ id        |-> Id(nextId),
    type      |-> "pin",
    x         |-> RInt(5),
    y         |-> RInt(5),
    width     |-> Undefined,
    height    |-> Undefined,
    endX      |-> Undefined,
    endY      |-> Undefined,
    text      |-> "",
    author    |-> Author,
    createdAt |-> clock ]

\* the annotation handleMouseDownOnDoc builds for a pin
NewPin(p) ==
  [ id        |-> Id(nextId),
    type      |-> "pin",
    x         |-> p.x,
    y         |-> p.y,
    width     |-> Undefined,
    height    |-> Undefined,
    endX      |-> Undefined,
    endY      |-> Undefined,
    text      |-> "",
    author    |-> Author,
    createdAt |-> clock ]

\* the annotation handleMouseUpOnDoc builds from the live preview
NewDrawn ==
  [ id        |-> Id(nextId),
    type      |-> activeTool,
    x         |-> currentDraw.x,
    y         |-> currentDraw.y,
    width     |-> currentDraw.w,
    height    |-> currentDraw.h,
    endX      |-> currentDraw.ex,
    endY      |-> currentDraw.ey,
    text      |-> "",
    author    |-> Author,
    createdAt |-> clock ]

\* onMouseDown of the preview container; the document element is mounted
\* whenever the container is
handleMouseDownOnDoc(e) ==
  /\ previewDoc # Null
  /\ IF activeTool = NoTool
     THEN /\ IF zoom > 4 \/ rotation # 0
             THEN /\ isDraggingImage' = TRUE
                  /\ dragStartPos' = [x |-> e.clientX - pan.x, y |-> e.clientY - pan.y]
             ELSE UNCHANGED <<isDraggingImage, dragStartPos>>
          /\ UNCHANGED <<docVars, annVars, drawVars, nextId>>
     ELSE LET p == PointerPercent(e)
          IN  IF activeTool = "pin"
              THEN /\ nextId <= MaxIds
                   /\ addAnnotation(NewPin(p))
                   /\ activeTool' = NoTool
                   /\ nextId' = nextId + 1
                   /\ UNCHANGED <<drawVars, isDraggingImage, dragStartPos>>
              ELSE /\ isDrawing' = TRUE
                   /\ drawStart' = p
                   /\ currentDraw' = PointPreview(p)
                   /\ UNCHANGED <<docVars, annVars, isDraggingImage, dragStartPos,
                                  nextId>>
  /\ UNCHANGED <<listVars, bulkVars, searchVars, zoom, rotation, pan, uploadVars,
                 formVars, nextFileId, clock>>

\* onMouseMove of the preview container
handleMouseMoveOnDoc(e) ==
  /\ previewDoc # Null
  /\ IF isDraggingImage
     THEN /\ pan' = [x |-> e.clientX - dragStartPos.x, y |-> e.clientY - dragStartPos.y]
          /\ Abs(pan'.x) <= MaxPan
          /\ Abs(pan'.y) <= MaxPan
          /\ UNCHANGED currentDraw
     ELSE /\ IF ~isDrawing \/ activeTool = NoTool
             THEN UNCHANGED currentDraw
             ELSE LET p == PointerPercent(e)
                  IN  IF activeTool = "rect"
                      THEN currentDraw' = RectPreview(drawStart, p)
                      ELSE IF activeTool = "arrow"
                           THEN currentDraw' = ArrowPreview(drawStart, p)
                           ELSE UNCHANGED currentDraw
          /\ UNCHANGED pan
  /\ UNCHANGED <<docVars, listVars, bulkVars, annVars, searchVars, isDrawing,
                 drawStart, zoom, rotation, isDraggingImage, dragStartPos,
                 uploadVars, formVars, envVars>>

\* onMouseUp of the preview container
handleMouseUpOnDoc ==
  /\ previewDoc # Null
  /\ IF isDraggingImage
     THEN /\ isDraggingImage' = FALSE
          /\ UNCHANGED <<docVars, annVars, drawVars, nextId>>
     ELSE /\ UNCHANGED isDraggingImage
          /\ IF ~isDrawing \/ currentDraw = Null \/ activeTool = NoTool
             THEN /\ isDrawing' = FALSE
                  /\ UNCHANGED <<docVars, annVars, drawStart, currentDraw, nextId>>
             ELSE /\ nextId <= MaxIds
                  /\ addAnnotation(NewDrawn)
                  /\ isDrawing' = FALSE
                  /\ currentDraw' = Null
                  /\ activeTool' = NoTool
                  /\ nextId' = nextId + 1
                  /\ UNCHANGED drawStart
  /\ UNCHANGED <<listVars, bulkVars, searchVars, zoom, rotation, pan, dragStartPos,
                 uploadVars, formVars, nextFileId, clock>>

(***************************************************************************)
(* Viewport.                                                               *)
(***************************************************************************)
Min(a, b) == IF a < b THEN a ELSE b
Max(a, b) == IF a < b THEN b ELSE a

\* zooming in without the upper limit
ZoomIn_Unclamped == zoom' = zoom + ZoomStep
\* zooming in by two steps
ZoomIn_Double == zoom' = Min(zoom + 2 * ZoomStep, ZoomMax)

ZoomIn  == zoom' = Min(zoom + ZoomStep, ZoomMax)
ZoomOut == zoom' = Max(zoom - ZoomStep, ZoomMin)
Rotate  == rotation' = (rotation + 90) % 360
Reset   == zoom' = ZoomDefault /\ rotation' = 0 /\ pan' = [x |-> 0, y |-> 0]

\* the buttons of the preview toolbar
handleZoomIn ==
  /\ previewDoc # Null
  /\ ZoomIn
  /\ UNCHANGED <<docVars, listVars, bulkVars, annVars, searchVars, drawVars,
                 rotation, pan, isDraggingImage, dragStartPos, uploadVars, formVars,
                 envVars>>

handleZoomOut ==
  /\ previewDoc # Null
  /\ ZoomOut
  /\ UNCHANGED <<docVars, listVars, bulkVars, annVars, searchVars, drawVars,
                 rotation, pan, isDraggingImage, dragStartPos, uploadVars, formVars,
                 envVars>>

handleRotate ==
  /\ previewDoc # Null
  /\ Rotate
  /\ UNCHANGED <<docVars, listVars, bulkVars, annVars, searchVars, drawVars,
                 zoom, pan, isDraggingImage, dragStartPos, uploadVars, formVars,
                 envVars>>

handleReset ==
  /\ previewDoc # Null
  /\ Reset
  /\ UNCHANGED <<docVars, listVars, bulkVars, annVars, searchVars, drawVars,
                 isDraggingImage, dragStartPos, uploadVars, formVars, envVars>>

(***************************************************************************)
(* Keyboard router: the keydown listener on window.                        *)
(***************************************************************************)
\* a router whose Escape cancels the edit and disarms the tool at once
handleKeyDown_EscapeAll(key) ==
  /\ IF previewDoc = Null
     THEN UNCHANGED <<docVars, annVars, zoom, rotation, pan>>
     ELSE IF key \in {"=", "+"}
     THEN ZoomIn /\ UNCHANGED <<docVars, annVars, rotation, pan>>
     ELSE IF key \in {"-", "_"}
     THEN ZoomOut /\ UNCHANGED <<docVars, annVars, rotation, pan>>
     ELSE IF key \in {"r", "R"}
     THEN Rotate /\ UNCHANGED <<docVars, annVars, zoom, pan>>
     ELSE IF key \in {"0", "f", "F"}
     THEN Reset /\ UNCHANGED <<docVars, annVars>>
     ELSE IF key = "Escape"
     THEN /\ IF activeAnnotationId # NoId
             THEN CancelAnnotationEdit /\ activeTool' = NoTool
             ELSE IF activeTool # NoTool
             THEN /\ activeTool' = NoTool
                  /\ UNCHANGED <<docVars, activeAnnotationId, annotationText,
                                 collapsedAnnotations>>
             ELSE /\ previewDoc' = Null
                  /\ UNCHANGED <<documents, annVars>>
          /\ UNCHANGED <<zoom, rotation, pan>>
     ELSE UNCHANGED <<docVars, annVars, zoom, rotation, pan>>
  /\ UNCHANGED <<listVars, bulkVars, searchVars, drawVars, isDraggingImage,
                 dragStartPos, uploadVars, formVars, envVars>>

\* A character typed in the draft textarea of the edit panel (l.1126), the
\* draft being empty: the keydown event reaches the window listener, which
\* does not look at the target of the event, then the input event reaches
\* onChange with the character as the new value.
typeInDraft(key) ==
  /\ previewDoc # Null
  /\ activeAnnotationId # NoId
  /\ annotationText = ""
  /\ IF key \in {"=", "+"}
     THEN ZoomIn /\ UNCHANGED <<rotation, pan>>
     ELSE IF key \in {"-", "_"}
     THEN ZoomOut /\ UNCHANGED <<rotation, pan>>
     ELSE IF key \in {"r", "R"}
     THEN Rotate /\ UNCHANGED <<zoom, pan>>
     ELSE IF key \in {"0", "f", "F"}
     THEN Reset
     ELSE UNCHANGED <<zoom, rotation, pan>>
  /\ annotationText' = key
  /\ UNCHANGED <<docVars, listVars, bulkVars, activeTool, activeAnnotationId,
                 collapsedAnnotations, searchVars, drawVars, isDraggingImage,
                 dragStartPos, uploadVars, formVars, envVars>>

\* handleKeyDown without the check that a document is open
handleKeyDown_Unguarded(key) ==
  /\ IF key \in {"=", "+"}
     THEN ZoomIn /\ UNCHANGED <<docVars, annVars, rotation, pan>>
     ELSE IF key \in {"-", "_"}
     THEN ZoomOut /\ UNCHANGED <<docVars, annVars, rotation, pan>>
     ELSE IF key \in {"r", "R"}
     THEN Rotate /\ UNCHANGED <<docVars, annVars, zoom, pan>>
     ELSE IF key \in {"0", "f", "F"}
     THEN Reset /\ UNCHANGED <<docVars, annVars>>
     ELSE IF key = "Escape"
     THEN /\ IF activeAnnotationId # NoId
             THEN CancelAnnotationEdit /\ UNCHANGED activeTool
             ELSE IF activeTool # NoTool
             THEN /\ activeTool' = NoTool
                  /\ UNCHANGED <<docVars, activeAnnotationId, annotationText,
                                 collapsedAnnotations>>
             ELSE /\ previewDoc' = Null
                  /\ UNCHANGED <<documents, annVars>>
          /\ UNCHANGED <<zoom, rotation, pan>>
     ELSE UNCHANGED <<docVars, annVars, zoom, rotation, pan>>
  /\ UNCHANGED <<listVars, bulkVars, searchVars, drawVars, isDraggingImage,
                 dragStartPos, uploadVars, formVars, envVars>>

handleKeyDown(key) ==
  /\ IF previewDoc = Null
     THEN UNCHANGED <<docVars, annVars, zoom, rotation, pan>>
     ELSE IF key \in {"=", "+"}
     THEN ZoomIn /\ UNCHANGED <<docVars, annVars, rotation, pan>>
     ELSE IF key \in {"-", "_"}
     THEN ZoomOut /\ UNCHANGED <<docVars, annVars, rotation, pan>>
     ELSE IF key \in {"r", "R"}
     THEN Rotate /\ UNCHANGED <<docVars, annVars, zoom, pan>>
     ELSE IF key \in {"0", "f", "F"}
     THEN Reset /\ UNCHANGED <<docVars, annVars>>
     ELSE IF key = "Escape"
     THEN /\ IF activeAnnotationId # NoId
             THEN CancelAnnotationEdit /\ UNCHANGED activeTool
             ELSE IF activeTool # NoTool
             THEN /\ activeTool' = NoTool
                  /\ UNCHANGED <<docVars, activeAnnotationId, annotationText,
                                 collapsedAnnotations>>
             ELSE /\ previewDoc' = Null
                  /\ UNCHANGED <<documents, annVars>>
          /\ UNCHANGED <<zoom, rotation, pan>>
     ELSE UNCHANGED <<docVars, annVars, zoom, rotation, pan>>
  /\ UNCHANGED <<listVars, bulkVars, searchVars, drawVars, isDraggingImage,
                 dragStartPos, uploadVars, formVars, envVars>>

(***************************************************************************)
(* Bulk annotation.                                                        *)
(***************************************************************************)
\* "Bulk Action" / "Exit Bulk Mode": rendered when the collection is not empty
toggleBulkMode ==
  /\ documents # <<>>
  /\ isBulkMode' = ~isBulkMode
  /\ UNCHANGED <<docVars, listVars, selectedDocTimestamps, bulkAnnotationText,
                 annVars, searchVars, drawVars, viewVars, uploadVars, formVars,
                 envVars>>

\* a click on a row in bulk mode
handleBulkToggle(timestamp) ==
  /\ isBulkMode
  /\ \E d \in Range(ListedDocuments) : d.uploadedAt = timestamp
  /\ selectedDocTimestamps' = IF timestamp \in selectedDocTimestamps
                              THEN selectedDocTimestamps \ {timestamp}
                              ELSE selectedDocTimestamps \cup {timestamp}
  /\ UNCHANGED <<docVars, listVars, isBulkMode, bulkAnnotationText, annVars,
                 searchVars, drawVars, viewVars, uploadVars, formVars, envVars>>

\* "Select All" / "Deselect All" and "Toggle All"
handleSelectAll ==
  /\ isBulkMode
  /\ documents # <<>>
  /\ selectedDocTimestamps' =
       IF Cardinality(selectedDocTimestamps) = Len(sortedDocuments)
       THEN {}
       ELSE { d.uploadedAt : d \in Range(sortedDocuments) }
  /\ UNCHANGED <<docVars, listVars, isBulkMode, bulkAnnotationText, annVars,
                 searchVars, drawVars, viewVars, uploadVars, formVars, envVars>>

\* the text field of the bulk bar
setBulkAnnotationText(text) ==
  /\ isBulkMode
  /\ selectedDocTimestamps # {}
  /\ documents # <<>>
  /\ bulkAnnotationText' = text
  /\ UNCHANGED <<docVars, listVars, isBulkMode, selectedDocTimestamps, annVars,
                 searchVars, drawVars, viewVars, uploadVars, formVars, envVars>>

\* "Cancel" of the bulk bar
cancelBulk ==
  /\ isBulkMode
  /\ selectedDocTimestamps # {}
  /\ documents # <<>>
  /\ selectedDocTimestamps' = {}
  /\ isBulkMode' = FALSE
  /\ UNCHANGED <<docVars, listVars, bulkAnnotationText, annVars, searchVars,
                 drawVars, viewVars, uploadVars, formVars, envVars>>

\* the number of selected documents among the first n of the collection
RECURSIVE SelectedBefore(_)
SelectedBefore(n) ==
  IF n = 0 THEN 0
  ELSE SelectedBefore(n - 1)
       + (IF documents[n].uploadedAt \in selectedDocTimestamps THEN 1 ELSE 0)

\* the pin applyBulkAnnotation appends to the i-th document of the collection
BulkPin(i) ==
  [ id        |-> Id(nextId + SelectedBefore(i - 1)),
    type      |-> "pin",
    x         |-> RInt(5),
    y         |-> RInt(5),
    width     |-> Undefined,
    height    |-> Undefined,
    endX      |-> Undefined,
    endY      |-> Undefined,
    text      |-> bulkAnnotationText,
    author    |-> Author,
    createdAt |-> clock ]

\* applyBulkAnnotation that tags every document of the collection
ApplyBulkAnnotation_All ==
  IF Trim(bulkAnnotationText) = "" \/ Cardinality(selectedDocTimestamps) = 0
  THEN UNCHANGED <<documents, bulkVars, nextId>>
  ELSE /\ documents' =
            [i \in 1..Len(documents) |->
               [documents[i] EXCEPT !.annotations = Append(@, BulkPin(i))]]
       /\ bulkAnnotationText' = ""
       /\ selectedDocTimestamps' = {}
       /\ isBulkMode' = FALSE
       /\ nextId' = nextId + SelectedBefore(Len(documents))

\* applyBulkAnnotation that tests the text without trimming it
ApplyBulkAnnotation_NoTrim ==
  IF bulkAnnotationText = "" \/ Cardinality(selectedDocTimestamps) = 0
  THEN UNCHANGED <<documents, bulkVars, nextId>>
  ELSE /\ documents' =
            [i \in 1..Len(documents) |->
               IF documents[i].uploadedAt \in selectedDocTimestamps
               THEN [documents[i] EXCEPT !.annotations = Append(@, BulkPin(i))]
               ELSE documents[i]]
       /\ bulkAnnotationText' = ""
       /\ selectedDocTimestamps' = {}
       /\ isBulkMode' = FALSE
       /\ nextId' = nextId + SelectedBefore(Len(documents))

\* applyBulkAnnotation: the effect on the collection and the bulk cells
ApplyBulkAnnotation ==
  IF Trim(bulkAnnotationText) = "" \/ Cardinality(selectedDocTimestamps) = 0
  THEN UNCHANGED <<documents, bulkVars, nextId>>
  ELSE /\ documents' =
            [i \in 1..Len(documents) |->
               IF documents[i].uploadedAt \in selectedDocTimestamps
               THEN [documents[i] EXCEPT !.annotations = Append(@, BulkPin(i))]
               ELSE documents[i]]
       /\ bulkAnnotationText' = ""
       /\ selectedDocTimestamps' = {}
       /\ isBulkMode' = FALSE
       /\ nextId' = nextId + SelectedBefore(Len(documents))

\* a call of applyBulkAnnotation
applyBulkAnnotation ==
  /\ nextId + SelectedBefore(Len(documents)) - 1 <= MaxIds
  /\ ApplyBulkAnnotation
  /\ UNCHANGED <<previewDoc, listVars, annVars, searchVars, drawVars, viewVars,
                 uploadVars, formVars, nextFileId, clock>>

\* "Apply to All" of the bulk bar: the bar is rendered in bulk mode with a
\* selection, and the button is disabled while the text is blank
applyBulkButton ==
  /\ isBulkMode
  /\ selectedDocTimestamps # {}
  /\ documents # <<>>
  /\ Trim(bulkAnnotationText) # ""
  /\ applyBulkAnnotation

(***************************************************************************)
(* Search inside a PDF.                                                    *)
(***************************************************************************)
\* the search field of the preview header: rendered for a PDF
setPdfSearchQuery(query) ==
  /\ previewDoc # Null
  /\ previewDoc.type = "application/pdf"
  /\ pdfSearchQuery' = query
  /\ UNCHANGED <<docVars, listVars, bulkVars, annVars, pdfSearchResults,
                 isSearchingInPdf, pendingSearches, drawVars, viewVars, uploadVars,
                 formVars, envVars>>

\* handlePdfSearch up to its await (Enter in the search field, or "Find")
handlePdfSearch ==
  /\ previewDoc # Null
  /\ previewDoc.type = "application/pdf"
  /\ Len(pendingSearches) < MaxPending
  /\ IF Trim(pdfSearchQuery) = ""
     THEN UNCHANGED <<pdfSearchResults, isSearchingInPdf, pendingSearches>>
     ELSE /\ isSearchingInPdf' = TRUE
          /\ pdfSearchResults' = Null
          /\ pendingSearches' = Append(pendingSearches,
               [doc |-> previewDoc.uploadedAt, data |-> previewDoc.data,
                query |-> pdfSearchQuery])
  /\ UNCHANGED <<docVars, listVars, bulkVars, annVars, pdfSearchQuery, drawVars,
                 viewVars, uploadVars, formVars, envVars>>

\* generateContent settles: handlePdfSearch after its await.  outcome is the
\* response text ("" for none) or "error" for a rejection.
pdfSearchSettled(i, outcome) ==
  /\ i \in 1..Len(pendingSearches)
  /\ pdfSearchResults' =
       [ text  |-> IF outcome = "error" THEN "Search failed. Please try again."
                   ELSE IF outcome = "" THEN "No results found."
                   ELSE outcome,
         about |-> pendingSearches[i] ]
  /\ isSearchingInPdf' = FALSE
  /\ pendingSearches' = RemoveAt(pendingSearches, i)
  /\ UNCHANGED <<docVars, listVars, bulkVars, annVars, pdfSearchQuery, drawVars,
                 viewVars, uploadVars, formVars, envVars>>

(***************************************************************************)
(* Form.                                                                   *)
(***************************************************************************)
\* handleChange on the fullName field
handleChange(value) ==
  /\ fullName' = value
  /\ UNCHANGED <<formData, selectedCountryCode, emailError, submitted, captureVars, chatVars>>
  /\ UNCHANGED <<docVars, listVars, bulkVars, annVars, searchVars, drawVars,
                 viewVars, uploadVars, envVars>>

\* handleChange on the email, phone, caseType and caseDetails fields
handleChangeField(name, value) ==
  /\ formData' = [formData EXCEPT ![name] = value]
  /\ emailError' = IF name = "email" THEN "" ELSE emailError
  /\ UNCHANGED <<fullName, selectedCountryCode, submitted, captureVars, chatVars>>
  /\ UNCHANGED <<docVars, listVars, bulkVars, annVars, searchVars, drawVars,
                 viewVars, uploadVars, envVars>>

\* the country code select
setSelectedCountryCode(code) ==
  /\ selectedCountryCode' = code
  /\ UNCHANGED <<fullName, formData, emailError, submitted, captureVars, chatVars>>
  /\ UNCHANGED <<docVars, listVars, bulkVars, annVars, searchVars, drawVars,
                 viewVars, uploadVars, envVars>>

\* code units: a-z and A-Z, 0-9
IsLetter(c) == c \in 65..90 \/ c \in 97..122
IsDigit(c) == c \in 48..57

\* EMAIL_REGEX.test: /^[a-zA-Z0-9._%+-]+@[a-zA-Z0-9.-]+\.[a-zA-Z]{2,}$/
EMAIL_REGEX(cs) ==
  \E at \in 2..Len(cs) : \E dot \in (at + 2)..(Len(cs) - 2) :
    /\ cs[at] = 64
    /\ cs[dot] = 46
    /\ \A k \in 1..(at - 1) : IsLetter(cs[k]) \/ IsDigit(cs[k]) \/ cs[k] \in {46, 95, 37, 43, 45}
    /\ \A k \in (at + 1)..(dot - 1) : IsLetter(cs[k]) \/ IsDigit(cs[k]) \/ cs[k] \in {46, 45}
    /\ \A k \in (dot + 1)..Len(cs) : IsLetter(cs[k])

\* replace(/^0+/, ''), on code units
RECURSIVE StripLeadingZeros(_)
StripLeadingZeros(cs) ==
  IF cs # <<>> /\ Head(cs) = 48 THEN StripLeadingZeros(Tail(cs)) ELSE cs

\* every field of formData is a string that is not blank
isFilled ==
  /\ Trim(fullName) # ""
  /\ \A key \in DOMAIN formData : Trim(formData[key]) # ""

\* the object handed to onSubmit, phone as code units
IntakeFormData(docs) ==
  [ fullName    |-> fullName,
    email       |-> formData.email,
    caseType    |-> formData.caseType,
    caseDetails |-> formData.caseDetails,
    phone       |-> Chars(selectedCountryCode) \o StripLeadingZeros(Chars(Trim(formData.phone))),
    documents   |-> docs ]

\* handleSubmit that hands over the whole collection in upload order
handleSubmit_AllDocuments ==
  /\ IF ~isFilled
     THEN emailError' = "" /\ UNCHANGED submitted
     ELSE IF ~EMAIL_REGEX(Chars(formData.email))
     THEN emailError' = "Please enter a valid email address." /\ UNCHANGED submitted
     ELSE emailError' = "" /\ submitted' = IntakeFormData(documents)
  /\ UNCHANGED <<fullName, formData, selectedCountryCode, captureVars, chatVars>>
  /\ UNCHANGED <<docVars, listVars, bulkVars, annVars, searchVars, drawVars,
                 viewVars, uploadVars, envVars>>

handleSubmit ==
  /\ IF ~isFilled
     THEN emailError' = "" /\ UNCHANGED submitted
     ELSE IF ~EMAIL_REGEX(Chars(formData.email))
     THEN emailError' = "Please enter a valid email address." /\ UNCHANGED submitted
     ELSE emailError' = "" /\ submitted' = IntakeFormData(sortedDocuments)
  /\ UNCHANGED <<fullName, formData, selectedCountryCode, captureVars, chatVars>>
  /\ UNCHANGED <<docVars, listVars, bulkVars, annVars, searchVars, drawVars,
                 viewVars, uploadVars, envVars>>

(***************************************************************************)
(* Auto-fill from a PDF and camera capture.                                *)
(***************************************************************************)
CASE_TYPES ==
  { "Commercial Transactions", "Conveyancing & Real Estate", "Debt Recovery",
    "Legal Audits", "Family Law & Succession", "Employment & Labor Relations",
    "Civil Litigation", "Intellectual Property", "Other" }

\* handlePdfAutoFill up to its awaits: the file of the hidden input
handlePdfAutoFill(file) ==
  /\ Len(pendingParses) < MaxPending
  /\ IF file.type # "application/pdf"
     THEN UNCHANGED <<isParsing, pendingParses>>
     ELSE /\ isParsing' = TRUE
          /\ pendingParses' = Append(pendingParses, file)
  /\ UNCHANGED <<fullName, formData, selectedCountryCode, emailError, submitted,
                 isCameraOpen, capturedImage, chatVars>>
  /\ UNCHANGED <<docVars, listVars, bulkVars, annVars, searchVars, drawVars,
                 viewVars, uploadVars, envVars>>

\* a request that is rejected, or a response that does not parse
ParseError == [error |-> TRUE]

\* generateContent settles: handlePdfAutoFill after its awaits.  result is
\* the parsed response or ParseError.
pdfAutoFillSettled(i, result) ==
  /\ i \in 1..Len(pendingParses)
  /\ IF result = ParseError
     THEN UNCHANGED <<fullName, formData, documents>>
     ELSE /\ fullName' = result.fullName
          /\ formData' = [ email       |-> result.email,
                           phone       |-> result.phone,
                           caseType    |-> IF result.caseType \in CASE_TYPES
                                           THEN result.caseType ELSE "",
                           caseDetails |-> result.caseDetails ]
          /\ documents' = Append(documents, NewDocument(pendingParses[i], clock))
  /\ isParsing' = FALSE
  /\ pendingParses' = RemoveAt(pendingParses, i)
  /\ UNCHANGED <<previewDoc, selectedCountryCode, emailError, submitted,
                 isCameraOpen, capturedImage, chatVars>>
  /\ UNCHANGED <<listVars, bulkVars, annVars, searchVars, drawVars, viewVars,
                 uploadVars, envVars>>

\* openCamera, getUserMedia granted
openCamera ==
  /\ isCameraOpen' = TRUE
  /\ capturedImage' = Null
  /\ UNCHANGED <<fullName, formData, selectedCountryCode, emailError, submitted,
                 isParsing, pendingParses, chatVars>>
  /\ UNCHANGED <<docVars, listVars, bulkVars, annVars, searchVars, drawVars,
                 viewVars, uploadVars, envVars>>

closeCamera ==
  /\ isCameraOpen
  /\ isCameraOpen' = FALSE
  /\ capturedImage' = Null
  /\ UNCHANGED <<fullName, formData, selectedCountryCode, emailError, submitted,
                 isParsing, pendingParses, chatVars>>
  /\ UNCHANGED <<docVars, listVars, bulkVars, annVars, searchVars, drawVars,
                 viewVars, uploadVars, envVars>>

\* the shutter button: rendered while no image is captured.  photo is what
\* canvas.toDataURL yields: the base64 text and its length.
capturePhoto(photo) ==
  /\ isCameraOpen
  /\ capturedImage = Null
  /\ capturedImage' = photo
  /\ UNCHANGED <<fullName, formData, selectedCountryCode, emailError, submitted,
                 isParsing, pendingParses, isCameraOpen, chatVars>>
  /\ UNCHANGED <<docVars, listVars, bulkVars, annVars, searchVars, drawVars,
                 viewVars, uploadVars, envVars>>

\* `captured_doc_${now}.jpg`
CapturedName(now) ==
  CASE now = 1 -> "captured_doc_1.jpg"
    [] now = 2 -> "captured_doc_2.jpg"
    [] now = 3 -> "captured_doc_3.jpg"
    [] now = 4 -> "captured_doc_4.jpg"
    [] now = 5 -> "captured_doc_5.jpg"

\* "Use Photo": rendered while an image is captured
savePhoto ==
  /\ isCameraOpen
  /\ capturedImage # Null
  /\ documents' = Append(documents,
       [ name        |-> CapturedName(clock),
         type        |-> "image/jpeg",
         size        |-> (capturedImage.length * 3 + 2) \div 4,
         data        |-> capturedImage.base64,
         uploadedAt  |-> clock,
         expiresAt   |-> clock + RETENTION_PERIOD_MS,
         annotations |-> <<>> ])
  /\ isCameraOpen' = FALSE
  /\ capturedImage' = Null
  /\ UNCHANGED <<previewDoc, fullName, formData, selectedCountryCode, emailError,
                 submitted, isParsing, pendingParses, chatVars>>
  /\ UNCHANGED <<listVars, bulkVars, annVars, searchVars, drawVars, viewVars,
                 uploadVars, envVars>>

(***************************************************************************)
(* The chat around the form: App.tsx and components/ChatInput.tsx.         *)
(***************************************************************************)
\* what the chat actions leave alone
chatFrame ==
  <<docVars, listVars, bulkVars, annVars, searchVars, drawVars, viewVars, uploadVars,
    fullName, formData, selectedCountryCode, emailError, submitted, captureVars, envVars>>

\* onChange of the chat input: disabled={isLoading || isFormVisible}
setInput(text) ==
  /\ ~(isLoading \/ showIntakeForm)
  /\ input' = text
  /\ UNCHANGED <<messages, isLoading, error, showIntakeForm, chatRequests, isListening,
                 recognition>>
  /\ UNCHANGED chatFrame

\* the microphone button: disabled={isLoading || isFormVisible}; start()
\* throws while the recognition has not ended, before setIsListening
handleToggleListening ==
  /\ ~(isLoading \/ showIntakeForm)
  /\ IF isListening
     THEN recognition' = (IF recognition = "running" THEN "stopping" ELSE recognition)
     ELSE recognition = "idle" /\ recognition' = "running"
  /\ isListening' = ~isListening
  /\ UNCHANGED <<messages, isLoading, error, showIntakeForm, chatRequests, input>>
  /\ UNCHANGED chatFrame

\* recognition.onresult: stop() still returns what was captured so far
recognitionOnresult(text) ==
  /\ recognition \in {"running", "stopping"}
  /\ input' = text
  /\ UNCHANGED <<messages, isLoading, error, showIntakeForm, chatRequests, isListening,
                 recognition>>
  /\ UNCHANGED chatFrame

\* recognition.onend and recognition.onerror
recognitionOnend ==
  /\ recognition # "idle"
  /\ recognition' = "idle"
  /\ isListening' = FALSE
  /\ UNCHANGED <<messages, isLoading, error, showIntakeForm, chatRequests, input>>
  /\ UNCHANGED chatFrame

\* handleSendMessage up to its await; chatRef.current is set
HandleSendMessage(text) ==
  /\ messages' = Append(messages, [sender |-> "user", text |-> text])
  /\ isLoading' = TRUE
  /\ error' = Null
  /\ chatRequests' = Append(chatRequests, [kind |-> "message"])

\* handleSubmit of ChatInput: the form's submit event
ChatInputSubmit ==
  IF Trim(input) # "" /\ ~isLoading
  THEN /\ isListening' = FALSE
       /\ recognition' = (IF isListening /\ recognition = "running"
                          THEN "stopping" ELSE recognition)
       /\ HandleSendMessage(input)
       /\ input' = ""
       /\ UNCHANGED showIntakeForm
  ELSE UNCHANGED chatVars

\* the chat form submitted while the intake form is visible
handleSubmit_ChatInput_FormVisible ==
  /\ ~(isLoading \/ Trim(input) = "")
  /\ ChatInputSubmit
  /\ UNCHANGED chatFrame

\* the send button, or Enter in the input: the form submits its default
\* button, disabled={isLoading || !input.trim() || isFormVisible}
handleSubmit_ChatInput ==
  /\ ~(isLoading \/ Trim(input) = "" \/ showIntakeForm)
  /\ ChatInputSubmit
  /\ UNCHANGED chatFrame

\* sendMessage settles: handleSendMessage and handleFormSubmit after their
\* await.  response is [text, form] (a text, a show_client_intake_form call)
\* or ParseError for a rejection.
sendMessageSettled(i, response) ==
  /\ i \in 1..Len(chatRequests)
  /\ messages' = IF response # ParseError /\ response.text
                 THEN Append(messages, [sender |-> "model", text |-> "reply"])
                 ELSE messages
  /\ IF chatRequests[i].kind = "message"
     THEN /\ showIntakeForm' = IF response # ParseError /\ response.form
                               THEN TRUE ELSE showIntakeForm
          /\ error' = IF response = ParseError
                      THEN [message |-> "I encountered an issue.", isTransient |-> TRUE]
                      ELSE error
     ELSE UNCHANGED <<showIntakeForm, error>>
  /\ isLoading' = FALSE
  /\ chatRequests' = RemoveAt(chatRequests, i)
  /\ UNCHANGED <<input, isListening, recognition>>
  /\ UNCHANGED chatFrame

\* handleFormSubmit up to its await: onSubmit of the intake form, which is
\* mounted while showIntakeForm
handleFormSubmit(data) ==
  /\ showIntakeForm
  /\ showIntakeForm' = FALSE
  /\ messages' = Append(messages,
       [sender |-> "model", text |-> <<"summary", data.fullName, Len(data.documents)>>])
  /\ isLoading' = TRUE
  /\ chatRequests' = Append(chatRequests, [kind |-> "followUp"])
  /\ UNCHANGED <<error, input, isListening, recognition>>
  /\ UNCHANGED chatFrame

\* onCancel of the intake form
onCancel ==
  /\ showIntakeForm
  /\ showIntakeForm' = FALSE
  /\ UNCHANGED <<messages, isLoading, error, chatRequests, input, isListening, recognition>>
  /\ UNCHANGED chatFrame

(***************************************************************************)
(* Inputs.                                                                 *)
(***************************************************************************)
\* pointer positions: two inside the document element at zoom 1, one outside
PointerA == [clientX |-> 250, clientY |-> 175]
PointerB == [clientX |-> 150, clientY |-> 125]
PointerOut == [clientX |-> 50, clientY |-> 225]
Pointers == {PointerA, PointerB, PointerOut}
SortCriteria == {"name", "date", "expiry"}
SearchTerms == {"", "PD", "b"}
ListFiles == { <<PdfB, PdfA, PdfC>>, <<JpgB, PdfA, PdfA>> }
Tools == {"pin", "rect", "arrow"}
Keys == {"=", "+", "-", "_", "r", "R", "0", "f", "F", "Escape", "a"}
Texts == {"", "note"}
Characters == {"r", "f", "0", "+", "-", "=", "_", "a"}
BulkTexts == {"", " ", "tag"}
Names == {"", "Ann"}
\* what the language API extracts from a PDF
ParseResults ==
  { [fullName |-> "Ann", email |-> "ann@x.io", phone |-> "0712",
     caseType |-> "Civil Litigation", caseDetails |-> "note"],
    [fullName |-> "", email |-> "", phone |-> "", caseType |-> "Civil",
     caseDetails |-> ""] }
\* what sendMessage resolves with: a text, a function call, both or neither
Responses == [text : BOOLEAN, form : BOOLEAN]
\* what the intake form hands to onSubmit
FormSubmissions ==
  { [fullName |-> "Ann", email |-> "ann@x.io", caseType |-> "Civil Litigation",
     caseDetails |-> "note", phone |-> <<43, 50, 53, 52, 55, 49, 50>>,
     documents |-> <<>>] }
\* a captured frame as a data URL
Photo == [base64 |-> "P", length |-> 4000]
\* the fields below fullName with a value for each, from top to bottom
FormFields == { <<"phone", "0712", 1>>, <<"email", "ann", 2>>, <<"email", "ann@x.io", 2>>,
                <<"caseType", "Civil Litigation", 3>>, <<"caseDetails", "note", 4>> }
Queries == {"", "clause"}
Outcomes == {"found", "", "error"}
FileLists == { <<PdfA>>, <<JpgB>>, <<PdfA, JpgB>>, <<PdfC, Txt>>, <<BigPdf>> }

\* room in the collection for every valid file of the list
FitsCollection(files) ==
  /\ batches = <<>>
  /\ nextFileId + Len(SeqFilter(files, FileIsValid)) - 1 <= MaxFileIds
  /\ Len(documents) + Len(SeqFilter(files, FileIsValid)) <= MaxDocs

Upload(lists) ==
  \/ \E files \in lists : FitsCollection(files) /\ handleFiles(files)
  \/ \E b \in 1..Len(batches) : \E i \in 1..Len(batches[b].reads) : readerOnload(b, i)

UploadFails ==
  \E b \in 1..Len(batches) : \E i \in 1..Len(batches[b].reads) : readerOnerror(b, i)

Preview ==
  \/ \E d \in Range(documents) : handleOpenPreview(d)
  \/ closePreview

Bulk(texts) ==
  \/ toggleBulkMode
  \/ \E d \in Range(documents) : handleBulkToggle(d.uploadedAt)
  \/ \E t \in texts : setBulkAnnotationText(t)
  \/ applyBulkButton

(***************************************************************************)
(* Specifications.  The handlers are those above; each specification       *)
(* drives the handlers of one part of the engine from the initial state,   *)
(* with the uploads and the preview that part needs, and records in lastOp *)
(* the handlers its properties speak about ("other" for the rest).         *)
(***************************************************************************)
Did(op) == lastOp' = <<op>>
Other == Did("other")

\* The annotation store and the document collection.
Next ==
  \/ Tick /\ Other
  \/ Upload({<<PdfA, JpgB>>}) /\ Other
  \/ Preview /\ Other
  \/ (\E d \in Range(documents) : removeDocument(d.uploadedAt)) /\ Other
  \/ (\E a \in Range(IF previewDoc = Null THEN <<>> ELSE previewDoc.annotations) :
        selectAnnotation(a)) /\ Other
  \/ (\E t \in Texts : setAnnotationText(t)) /\ Other
  \/ saveAnnotationText /\ Other
  \/ cancelAnnotationEdit /\ Did("cancelAnnotationEdit")
  \/ (\E id \in 1..MaxIds + 1 : deleteAnnotation(Id(id))) /\ Other
  \/ selectTool("pin") /\ Other
  \/ handleMouseDownOnDoc(PointerB) /\ Other
  \/ handleKeyDown("Escape")
       /\ Did(IF previewDoc # Null /\ activeAnnotationId # NoId
              THEN "cancelAnnotationEdit" ELSE "other")

Spec == Init /\ [][Next]_vars

\* The pointer handlers on a collection of one document, as the only source
\* of annotation writes: every annotation comes from addAnnotation.
NextAdd ==
  \/ documents = <<>> /\ Upload({<<PdfA>>}) /\ Other
  \/ Preview /\ Other
  \/ (\E t \in Tools : selectTool(t)) /\ Other
  \/ handleMouseDownOnDoc(PointerA) /\ Other
  \/ handleMouseMoveOnDoc(PointerB) /\ Other
  \/ handleMouseUpOnDoc /\ Other

SpecAdd == Init /\ [][NextAdd]_vars

\* The draw interaction at the initial viewport.
NextDraw ==
  \/ documents = <<>> /\ Upload({<<PdfA>>}) /\ Other
  \/ (\E d \in Range(documents) : handleOpenPreview(d)) /\ Other
  \/ (\E t \in {"rect", "arrow"} : selectTool(t)) /\ Other
  \/ (\E e \in {PointerA, PointerB} : handleMouseDownOnDoc(e)) /\ Other
  \/ (\E e \in {PointerA, PointerB} : handleMouseMoveOnDoc(e))
       /\ Did("handleMouseMoveOnDoc")
  \/ handleMouseUpOnDoc /\ nextId' <= MaxDrawn + 1 /\ Did("handleMouseUpOnDoc")

SpecDraw == Init /\ [][NextDraw]_vars

\* The draw interaction in a magnified viewport, where a press without a tool
\* starts a pan-drag.
NextPan ==
  \/ documents = <<>> /\ Upload({<<PdfA>>}) /\ Other
  \/ (\E d \in Range(documents) : handleOpenPreview(d)) /\ Other
  \/ (\E t \in {"rect", "arrow"} : selectTool(t)) /\ Other
  \/ (handleZoomIn /\ zoom < MaxZoom) /\ Other
  \/ handleMouseDownOnDoc(PointerA) /\ Other
  \/ handleMouseMoveOnDoc(PointerB) /\ ~isDraggingImage /\ Other
  \/ handleMouseUpOnDoc /\ nextId' <= MaxDrawn + 1 /\ Did("handleMouseUpOnDoc")

SpecPan == Init /\ [][NextPan]_vars

\* The keyboard router next to the edit panel and the toolbar.
NextKeys ==
  \/ documents = <<>> /\ Upload({<<PdfA>>}) /\ Other
  \/ Preview /\ Other
  \/ (\E t \in Tools : selectTool(t)) /\ Other
  \/ handleMouseDownOnDoc(PointerA) /\ Did("handleMouseDownOnDoc")
  \/ (\E a \in Range(IF previewDoc = Null THEN <<>> ELSE previewDoc.annotations) :
        selectAnnotation(a)) /\ Other
  \/ (\E t \in Texts : setAnnotationText(t)) /\ Other
  \/ saveAnnotationText /\ Other
  \/ handleKeyDown("Escape") /\ Did("Escape")
  \/ handleKeyDown("a") /\ Other

SpecKeys == Init /\ [][NextKeys]_vars

\* Opening the preview over whatever the last preview left behind.
NextView ==
  \/ documents = <<>> /\ Upload({<<PdfA>>}) /\ Other
  \/ (\E d \in Range(documents) : handleOpenPreview(d)) /\ Did("handleOpenPreview")
  \/ closePreview /\ Other
  \/ selectTool("pin") /\ Other
  \/ (handleKeyDown("+") /\ zoom < MaxZoom) /\ Other
  \/ handleKeyDown("r") /\ Other
  \/ handleMouseDownOnDoc(PointerA) /\ nextId' <= MaxDrawn + 1 /\ Other
  \/ handleMouseMoveOnDoc(PointerB) /\ Other
  \/ handleMouseUpOnDoc /\ Other
  \/ setPdfSearchQuery("clause") /\ Other
  \/ handlePdfSearch /\ Other
  \/ (\E i \in 1..Len(pendingSearches) : pdfSearchSettled(i, "found")) /\ Other

SpecView == Init /\ [][NextView]_vars

\* lastOp for a handler whose consecutive calls are counted: the handler, the
\* length of the run so far and the value the run started from.  A run longer
\* than len starts a new one.
Run(op, before, len) ==
  lastOp' = IF lastOp[1] = op /\ lastOp[2] < len
            THEN <<op, lastOp[2] + 1, lastOp[3]>>
            ELSE <<op, 1, before>>

\* The viewport controls: toolbar buttons and keyboard shortcuts.
NextZoom ==
  \/ documents = <<>> /\ Upload({<<PdfA>>}) /\ Other
  \/ Preview /\ Other
  \/ handleZoomIn /\ Run("handleZoomIn", zoom, ZoomRun)
  \/ handleZoomOut /\ Run("handleZoomOut", zoom, 1)
  \/ handleRotate /\ Run("handleRotate", rotation, RotateRun)
  \/ handleReset /\ Other
  \/ (\E k \in Keys : handleKeyDown(k)) /\ Other

SpecZoom == Init /\ [][NextZoom]_vars

\* lastOp for toggleSort: the last SortRun consecutive calls, each with its
\* argument and the sort state it was called in
Toggled(c) ==
  LET sofar == IF lastOp[1] = "toggleSort" THEN lastOp[2] ELSE <<>>
      now   == Append(sofar, [c |-> c, criterion |-> sortCriterion,
                              direction |-> sortDirection])
  IN  lastOp' = <<"toggleSort", IF Len(now) > SortRun THEN Tail(now) ELSE now>>

\* The sort buttons of the document list.
NextSort ==
  \/ documents = <<>> /\ Upload({<<PdfA>>}) /\ Other
  \/ (\E c \in SortCriteria : toggleSort(c) /\ Toggled(c))
  \/ (\E d \in Range(documents) : removeDocument(d.uploadedAt)) /\ Other

SpecSort == Init /\ [][NextSort]_vars

\* The list: one batch of three files whose reads complete in any order and
\* at any time, then searched and sorted.
NextList ==
  \/ /\ documents = <<>> /\ batches = <<>> /\ nextFileId = 1
     /\ \E files \in ListFiles : handleFiles(files)
     /\ Other
  \/ (\E b \in 1..Len(batches) : \E i \in 1..Len(batches[b].reads) : readerOnload(b, i)) /\ Other
  \/ TickTo(MaxListClock) /\ Other
  \/ (\E c \in SortCriteria : toggleSort(c)) /\ Other
  \/ (\E t \in SearchTerms : setSearchTerm(t)) /\ Other

SpecList == Init /\ [][NextList]_vars

\* The store operation last called, and its argument.
Called(op, arg) == lastOp' = <<op, arg>>

\* the annotations a caller can still hold after they left the previewed
\* document: an id handed out earlier, with some text
StaleAnnotations ==
  IF previewDoc = Null THEN {}
  ELSE { [NewPin(PointerPercent(PointerB)) EXCEPT !.id = Id(k), !.text = t] :
           k \in { n \in 1..(nextId - 1) : Id(n) \notin AnnotationIds(previewDoc) },
           t \in Texts }

\* The cells no store operation writes.
storeFrame ==
  <<listVars, bulkVars, activeTool, searchVars, drawVars, viewVars, uploadVars,
    formVars, envVars>>

\* The annotation store of one document, tagged from the preview and from the
\* bulk bar: the operations as the interface offers them, and
\* saveAnnotationText called with no annotation active.
NextEdit ==
  \/ documents = <<>> /\ Upload({<<PdfA>>}) /\ Other
  \/ Preview /\ Other
  \/ selectTool("pin") /\ Other
  \/ handleMouseDownOnDoc(PointerB) /\ Other
  \/ (\E a \in Range(IF previewDoc = Null THEN <<>> ELSE previewDoc.annotations) :
        selectAnnotation(a)) /\ Other
  \/ (\E t \in Texts : setAnnotationText(t)) /\ Other
  \/ toggleBulkMode /\ Other
  \/ handleSelectAll /\ Other
  \/ setBulkAnnotationText("tag") /\ Other
  \/ applyBulkButton /\ Other
  \/ saveAnnotationText /\ Called("saveAnnotationText", activeAnnotationId)
  \/ /\ activeAnnotationId = NoId
     /\ SaveAnnotationText /\ UNCHANGED storeFrame
     /\ Called("saveAnnotationText", activeAnnotationId)
  \/ \E id \in 1..MaxIds : deleteAnnotation(Id(id)) /\ Called("deleteAnnotation", Id(id))

SpecEdit == Init /\ [][NextEdit]_vars

\* The annotation store of one document, with calls that carry an annotation
\* that is no longer in the previewed document.
NextStale ==
  \/ documents = <<>> /\ Upload({<<PdfA>>}) /\ Other
  \/ Preview /\ Other
  \/ selectTool("pin") /\ Other
  \/ handleMouseDownOnDoc(PointerB) /\ Other
  \/ (\E a \in Range(IF previewDoc = Null THEN <<>> ELSE previewDoc.annotations) :
        selectAnnotation(a)) /\ Other
  \/ (\E t \in Texts : setAnnotationText(t)) /\ Other
  \/ saveAnnotationText /\ Called("saveAnnotationText", activeAnnotationId)
  \/ \E id \in 1..MaxIds : deleteAnnotation(Id(id)) /\ Called("deleteAnnotation", Id(id))
  \/ \E a \in StaleAnnotations :
       /\ SelectAnnotation(a) /\ UNCHANGED <<docVars, storeFrame>>
       /\ Called("selectAnnotation", a.id)
  \/ \E a \in StaleAnnotations :
       /\ DeleteAnnotation(a.id) /\ UNCHANGED <<collapsedAnnotations, storeFrame>>
       /\ Called("deleteAnnotation", a.id)

SpecStale == Init /\ [][NextStale]_vars

\* Drawing with the pointer inside and outside the document element, at two
\* zoom levels.
NextOut ==
  \/ documents = <<>> /\ Upload({<<PdfA>>}) /\ Other
  \/ (\E d \in Range(documents) : previewDoc = Null /\ handleOpenPreview(d)) /\ Other
  \/ (\E t \in {"pin", "rect", "arrow"} : ~isDrawing /\ selectTool(t)) /\ Other
  \/ ~isDrawing /\ handleZoomIn /\ zoom < MaxZoom /\ Other
  \/ \E e \in {PointerB, PointerOut} :
       /\ activeTool # NoTool
       /\ handleMouseDownOnDoc(e) /\ nextId' <= MaxDrawn + 1
       /\ Called("handleMouseDownOnDoc", e)
  \/ \E e \in {PointerA, PointerOut} :
       isDrawing /\ handleMouseMoveOnDoc(e) /\ Called("handleMouseMoveOnDoc", e)
  \/ /\ isDrawing
     /\ handleMouseUpOnDoc /\ nextId' <= MaxDrawn + 1
     /\ Called("handleMouseUpOnDoc", NoId)

SpecOut == Init /\ [][NextOut]_vars

\* The keyboard router while the preview is closed over the zoom, rotation,
\* pan, tool and active annotation that an earlier preview left behind.
NextIdle ==
  \/ documents = <<>> /\ Upload({<<PdfA>>}) /\ Other
  \/ Preview /\ Other
  \/ selectTool("pin") /\ Other
  \/ /\ activeTool = "pin" /\ zoom = ZoomDefault /\ rotation = 0
     /\ handleMouseDownOnDoc(PointerB) /\ nextId' <= MaxDrawn + 1 /\ Other
  \/ activeTool = NoTool /\ handleMouseDownOnDoc(PointerB) /\ Other
  \/ isDraggingImage /\ handleMouseMoveOnDoc(PointerA) /\ Other
  \/ isDraggingImage /\ handleMouseUpOnDoc /\ Other
  \/ previewDoc # Null /\ (\E k \in Keys : handleKeyDown(k) /\ zoom' <= MaxZoom) /\ Other
  \/ previewDoc = Null /\ (\E k \in Keys : handleKeyDown(k)) /\ Did("handleKeyDown")

SpecIdle == Init /\ [][NextIdle]_vars

\* Characters typed into the draft of an annotation under edit.
NextType ==
  \/ documents = <<>> /\ Upload({<<PdfA>>}) /\ Other
  \/ (\E d \in Range(documents) : previewDoc = Null /\ handleOpenPreview(d)) /\ Other
  \/ selectTool("pin") /\ Other
  \/ activeTool = "pin" /\ handleMouseDownOnDoc(PointerB) /\ nextId' <= MaxDrawn + 1 /\ Other
  \/ (\E a \in Range(IF previewDoc = Null THEN <<>> ELSE previewDoc.annotations) :
        selectAnnotation(a)) /\ Other
  \/ setAnnotationText("") /\ Other
  \/ saveAnnotationText /\ Other
  \/ handleZoomIn /\ zoom < MaxZoom /\ Other
  \/ \E k \in Characters : typeInDraft(k) /\ zoom' <= MaxZoom /\ Did("typeInDraft")

SpecType == Init /\ [][NextType]_vars

\* Searches inside the PDFs of a collection of two, previews opened and closed
\* while a request is in flight.
NextSearch ==
  \/ documents = <<>> /\ Upload({<<PdfA, PdfB>>}) /\ Other
  \/ Tick /\ Other
  \/ Preview /\ Other
  \/ setPdfSearchQuery("clause") /\ Other
  \/ handlePdfSearch /\ Other
  \/ (\E i \in 1..Len(pendingSearches) : \E o \in {"found", "", "error"} :
        pdfSearchSettled(i, o)) /\ Other

SpecSearch == Init /\ [][NextSearch]_vars

\* The annotation store on a collection of two documents, which one batch
\* brought in: the reads may complete within one value of the clock.
NextOthers ==
  \/ documents = <<>> /\ Upload({<<PdfA, JpgB>>}) /\ Other
  \/ Tick /\ Other
  \/ (\E d \in Range(documents) : previewDoc = Null /\ handleOpenPreview(d)) /\ Other
  \/ closePreview /\ Other
  \/ selectTool("pin") /\ Other
  \/ activeTool = "pin" /\ handleMouseDownOnDoc(PointerB) /\ Did("addAnnotation")
  \/ (\E a \in Range(IF previewDoc = Null THEN <<>> ELSE previewDoc.annotations) :
        selectAnnotation(a)) /\ Other
  \/ setAnnotationText("note") /\ Other
  \/ saveAnnotationText /\ Did("saveAnnotationText")
  \/ cancelAnnotationEdit /\ Did("cancelAnnotationEdit")
  \/ (\E id \in 1..MaxIds : deleteAnnotation(Id(id))) /\ Did("deleteAnnotation")

SpecOthers == Init /\ [][NextOthers]_vars

\* Tool selections, pointer events, Escape presses and previews opened and
\* closed on one document.
NextShape ==
  \/ documents = <<>> /\ Upload({<<PdfA>>}) /\ Other
  \/ (\E d \in Range(documents) : previewDoc = Null /\ handleOpenPreview(d)) /\ Other
  \/ closePreview /\ Other
  \/ (\E t \in Tools : selectTool(t)) /\ Other
  \/ (\E e \in {PointerA, PointerB} : handleMouseDownOnDoc(e))
       /\ nextId' <= MaxDrawn + 1 /\ Other
  \/ handleMouseMoveOnDoc(PointerA) /\ Other
  \/ handleMouseUpOnDoc /\ nextId' <= MaxDrawn + 1 /\ Other
  \/ handleKeyDown("Escape") /\ Other

SpecShape == Init /\ [][NextShape]_vars

\* Every way a document enters the collection: file chooser and drop,
\* auto-fill from a PDF, camera capture.
NextIngest ==
  \/ Upload({<<PdfA, BigPdf>>, <<Txt, JpgB>>}) /\ Other
  \/ Tick /\ Other
  \/ /\ Len(documents) < MaxDocs
     /\ \E file \in {PdfA, BigPdf, JpgB} : handlePdfAutoFill(file)
     /\ Other
  \/ /\ Len(documents) < MaxDocs
     /\ \E i \in 1..Len(pendingParses) : \E r \in ParseResults \cup {ParseError} :
          pdfAutoFillSettled(i, r)
     /\ Other
  \/ openCamera /\ Other
  \/ closeCamera /\ Other
  \/ capturePhoto(Photo) /\ Other
  \/ Len(documents) < MaxDocs /\ savePhoto /\ Other

SpecIngest == Init /\ [][NextIngest]_vars

\* a read of the batches in flight settles, either way
ReadSettles ==
  \E b \in 1..Len(batches) : \E i \in 1..Len(batches[b].reads) :
    (readerOnload(b, i) \/ readerOnerror(b, i)) /\ Other

\* One batch of the file chooser, each read of which loads or fails.
NextReads ==
  \/ /\ documents = <<>> /\ batches = <<>> /\ nextFileId = 1
     /\ \E files \in ListFiles \cup {<<PdfA, Txt, JpgB>>} : handleFiles(files)
     /\ Other
  \/ ReadSettles
  \/ TickTo(MaxListClock) /\ Other

SpecReads == Init /\ [][NextReads]_vars

\* a FileReader fires load or error for every read it was given
SpecReadsFair == SpecReads /\ WF_vars(ReadSettles)

\* The chat: messages typed or dictated and sent, answers and failures of
\* the language API, the intake form shown, cancelled and submitted.
NextChat ==
  \/ (\E t \in {"", "note"} : setInput(t)) /\ Other
  \/ handleToggleListening /\ Other
  \/ recognitionOnresult("note") /\ Other
  \/ recognitionOnend /\ Other
  \/ Len(messages) < MaxMessages /\ handleSubmit_ChatInput /\ Other
  \/ (\E i \in 1..Len(chatRequests) : \E r \in Responses \cup {ParseError} :
        sendMessageSettled(i, r)) /\ Other
  \/ (\E data \in FormSubmissions : handleFormSubmit(data)) /\ Other
  \/ onCancel /\ Other

SpecChat == Init /\ [][NextChat]_vars

\* The form is filled in from top to bottom, then documents are attached,
\* listed and annotated in bulk; a run ends with the first onSubmit call.
NextSubmit ==
  /\ submitted = Null
  /\ \/ fullName = "" /\ setSelectedCountryCode("+1") /\ Other
     \/ fullName = "" /\ handleChange("Ann") /\ Other
     \/ /\ \E f \in FormFields :
             /\ formData[f[1]] = ""
             /\ \A g \in FormFields : g[3] < f[3] => formData[g[1]] # ""
             /\ handleChangeField(f[1], f[2])
        /\ fullName # "" /\ documents = <<>> /\ batches = <<>>
        /\ Other
     \/ /\ formData.caseDetails # "" /\ documents = <<>>
        /\ Upload({<<PdfB, PdfA>>}) /\ Other
     \/ batches # <<>> /\ TickTo(MaxListClock) /\ Other
     \/ (\E c \in SortCriteria : toggleSort(c)) /\ Other
     \/ (\E t \in {"", "b"} : setSearchTerm(t)) /\ Other
     \/ toggleBulkMode /\ Other
     \/ handleSelectAll /\ Other
     \/ setBulkAnnotationText("tag") /\ Other
     \/ applyBulkButton /\ Other
     \/ uploadingFiles = <<>> /\ ~isParsing /\ handleSubmit /\ Did("handleSubmit")

SpecSubmit == Init /\ [][NextSubmit]_vars

\* a point of the document content, in percent of the untransformed element
ContentPoint == [u |-> 10, v |-> 10]

\* Pins placed on one point of the content under zoom, rotation and pan.
NextTurn ==
  \/ documents = <<>> /\ Upload({<<PdfA>>}) /\ Other
  \/ (\E d \in Range(documents) : previewDoc = Null /\ handleOpenPreview(d)) /\ Other
  \/ selectTool("pin") /\ Other
  \/ handleZoomIn /\ zoom < MaxZoom /\ Other
  \/ handleRotate /\ Other
  \/ activeTool = NoTool /\ handleMouseDownOnDoc(PointerA) /\ Other
  \/ isDraggingImage /\ handleMouseMoveOnDoc(PointerB) /\ Other
  \/ isDraggingImage /\ handleMouseUpOnDoc /\ Other
  \/ /\ activeTool = "pin"
     /\ handleMouseDownOnDoc(PointerAt(ContentPoint)) /\ nextId' <= MaxDrawn + 1
     /\ Called("handleMouseDownOnDoc", ContentPoint)

SpecTurn == Init /\ [][NextTurn]_vars

\* The bulk selection before a call of handleSelectAll.
Selected == lastOp' = <<"handleSelectAll", selectedDocTimestamps>>

\* What a call of applyBulkAnnotation found.
Applied ==
  lastOp' = <<"applyBulkAnnotation",
              [ documents |-> documents,
                selected  |-> selectedDocTimestamps,
                text      |-> bulkAnnotationText,
                mode      |-> isBulkMode,
                author    |-> Author,
                now       |-> clock ]>>

\* Bulk annotation: one batch of two files, searched, selected and tagged.
NextBulk ==
  \/ documents = <<>> /\ Upload({<<PdfA, JpgB>>}) /\ Other
  \/ Tick /\ Other
  \/ (\E t \in {"", "b"} : setSearchTerm(t)) /\ Other
  \/ (\E n \in Names : handleChange(n)) /\ Other
  \/ toggleBulkMode /\ Other
  \/ (\E d \in Range(documents) : handleBulkToggle(d.uploadedAt)) /\ Other
  \/ handleSelectAll /\ Selected
  \/ (\E t \in BulkTexts : setBulkAnnotationText(t)) /\ Other
  \/ applyBulkButton /\ Applied
  \/ applyBulkAnnotation /\ Applied

SpecBulk == Init /\ [][NextBulk]_vars

\* What a call of removeDocument found.
Removed(id) ==
  lastOp' = <<"removeDocument", id,
              [documents |-> documents, selected |-> selectedDocTimestamps]>>

\* The bulk selection and the removal of documents.
NextSelect ==
  \/ documents = <<>> /\ Upload({<<PdfA, JpgB>>}) /\ Other
  \/ Tick /\ Other
  \/ (\E t \in {"", "b"} : setSearchTerm(t)) /\ Other
  \/ toggleBulkMode /\ Other
  \/ (\E d \in Range(documents) : handleBulkToggle(d.uploadedAt)) /\ Other
  \/ handleSelectAll /\ Other
  \/ cancelBulk /\ Other
  \/ \E d \in Range(documents) : removeDocument(d.uploadedAt) /\ Removed(d.uploadedAt)

SpecSelect == Init /\ [][NextSelect]_vars

(***************************************************************************)
(* Properties.                                                             *)
(***************************************************************************)
\* C1: whenever a document is open in the preview, the collection holds a
\* record with the previewed document's uploadedAt whose annotation sequence
\* equals the previewed document's annotation sequence.
C1_PreviewSynchronized ==
  previewDoc # Null =>
    \E i \in 1..Len(documents) :
      /\ documents[i].uploadedAt = previewDoc.uploadedAt
      /\ documents[i].annotations = previewDoc.annotations

\* C3: cancelAnnotationEdit removes the active annotation when its stored text
\* and the draft buffer are both empty; an active annotation with stored text
\* stays, text and all, whatever the draft holds; either way the active
\* selection and the draft buffer are cleared.
C3_CancelStep ==
  LET id  == activeAnnotationId
      ann == FindAnnotation(previewDoc, id)
  IN  /\ (ann # Null /\ ann.text = "" /\ annotationText = "") =>
            /\ previewDoc'.annotations = SeqFilter(previewDoc.annotations, LAMBDA a : a.id # id)
            /\ \A d \in Range(documents') :
                 d.uploadedAt = previewDoc.uploadedAt => id \notin AnnotationIds(d)
      /\ (ann # Null /\ ann.text # "") =>
            /\ previewDoc' = previewDoc
            /\ documents' = documents
      /\ activeAnnotationId' = NoId
      /\ annotationText' = ""

C3_CancelAnnotationEdit ==
  [][lastOp' = <<"cancelAnnotationEdit">> => C3_CancelStep]_vars

\* C3 witness: the only annotation ever created carries saved text and has
\* just been through cancelAnnotationEdit.
C3_Witness ==
  /\ lastOp = <<"cancelAnnotationEdit">>
  /\ previewDoc # Null
  /\ nextId = 2
  /\ Len(previewDoc.annotations) = 1
  /\ previewDoc.annotations[1].text = "note"
  /\ previewDoc.annotations[1].id \in collapsedAnnotations
  /\ activeAnnotationId = NoId

C4_RectHasSize ==
  \A i \in 1..Len(documents) :
    \A k \in 1..Len(documents[i].annotations) :
      LET a == documents[i].annotations[k]
      IN  a.type = "rect" =>
            /\ a.width # Undefined
            /\ a.height # Undefined
            /\ ~RLess(a.width, RInt(0))
            /\ ~RLess(a.height, RInt(0))

\* C5: a rect drawn from A to B is the rect drawn from B to A: x and y are the
\* minima of the two points' coordinates, width and height the absolute
\* differences; pointer-up stores that geometry.
C5_RectStep ==
  /\ (lastOp' = <<"handleMouseMoveOnDoc">> /\ isDrawing /\ activeTool = "rect") =>
       \E e \in {PointerA, PointerB} :
         LET A == drawStart
             B == PointerPercent(e)
         IN  /\ currentDraw' = RectPreview(B, A)
             /\ currentDraw'.x = RMin(A.x, B.x)
             /\ currentDraw'.y = RMin(A.y, B.y)
             /\ currentDraw'.w = RAbs(RSub(A.x, B.x))
             /\ currentDraw'.h = RAbs(RSub(A.y, B.y))
  /\ (lastOp' = <<"handleMouseUpOnDoc">> /\ isDrawing /\ activeTool = "rect"
        /\ currentDraw # Null) =>
       LET stored == previewDoc'.annotations[Len(previewDoc'.annotations)]
       IN  /\ Len(previewDoc'.annotations) = Len(previewDoc.annotations) + 1
           /\ stored.type = "rect"
           /\ stored.x = currentDraw.x
           /\ stored.y = currentDraw.y
           /\ stored.width = currentDraw.w
           /\ stored.height = currentDraw.h

C5_RectSymmetric == [][C5_RectStep]_vars

\* C5 witness: a rect stored after a draw that started at the lower right
\* corner (75%, 75%) and ended at the upper left one (25%, 25%).
C5_Witness ==
  /\ lastOp = <<"handleMouseUpOnDoc">>
  /\ previewDoc # Null
  /\ Len(previewDoc.annotations) = 1
  /\ drawStart = [x |-> RInt(75), y |-> RInt(75)]
  /\ previewDoc.annotations[1].type = "rect"
  /\ previewDoc.annotations[1].x = RInt(25)
  /\ previewDoc.annotations[1].y = RInt(25)
  /\ previewDoc.annotations[1].width = RInt(50)
  /\ previewDoc.annotations[1].height = RInt(50)

\* C6: a pointer release while a rect or arrow draw is in progress appends
\* exactly one annotation of the armed tool's type with the geometry of the
\* live preview, disarms the tool and leaves the draw state Idle.
C6_ReleaseStep ==
  (lastOp' = <<"handleMouseUpOnDoc">> /\ isDrawing /\ activeTool \in {"rect", "arrow"}
     /\ currentDraw # Null) =>
    /\ Len(previewDoc'.annotations) = Len(previewDoc.annotations) + 1
    /\ SubSeq(previewDoc'.annotations, 1, Len(previewDoc.annotations)) = previewDoc.annotations
    /\ LET stored == previewDoc'.annotations[Len(previewDoc'.annotations)]
       IN  /\ stored.type = activeTool
           /\ stored.x = currentDraw.x
           /\ stored.y = currentDraw.y
           /\ stored.width = currentDraw.w
           /\ stored.height = currentDraw.h
           /\ stored.endX = currentDraw.ex
           /\ stored.endY = currentDraw.ey
    /\ activeTool' = NoTool
    /\ isDrawing' = FALSE

C6_ReleaseCreates == [][C6_ReleaseStep]_vars

\* C7: pointer-down with the pin tool armed appends exactly one pin with
\* empty text at the clicked percentage coordinate, makes it the active
\* annotation, disarms the tool and does not enter the Drawing state.
C7_PinStep ==
  (lastOp' = <<"handleMouseDownOnDoc">> /\ activeTool = "pin") =>
    LET p    == PointerPercent(PointerA)
        anns == previewDoc.annotations
        new  == previewDoc'.annotations[Len(previewDoc'.annotations)]
    IN  /\ Len(previewDoc'.annotations) = Len(anns) + 1
        /\ SubSeq(previewDoc'.annotations, 1, Len(anns)) = anns
        /\ new.type = "pin"
        /\ new.text = ""
        /\ new.x = p.x
        /\ new.y = p.y
        /\ new.id \notin AnnotationIds(previewDoc)
        /\ activeAnnotationId' = new.id
        /\ activeTool' = NoTool
        /\ isDrawing' = isDrawing
        /\ \E i \in 1..Len(documents') : documents'[i] = previewDoc'

C7_PinPlaced == [][C7_PinStep]_vars

\* C7 witness: a pin just placed at (75%, 75%) is the active annotation and
\* no draw is in progress.
C7_Witness ==
  /\ lastOp = <<"handleMouseDownOnDoc">>
  /\ previewDoc # Null
  /\ activeAnnotationId # NoId
  /\ activeTool = NoTool
  /\ ~isDrawing
  /\ LET a == FindAnnotation(previewDoc, activeAnnotationId)
     IN  a # Null /\ a.type = "pin" /\ a.text = "" /\ a.x = RInt(75) /\ a.y = RInt(75)

\* C8: isDrawing and isDraggingImage are never both true.
C8_OneGesture == ~(isDrawing /\ isDraggingImage)

\* C9: Escape does exactly one thing: with an active annotation it cancels
\* the edit and leaves tool and preview alone; otherwise with a tool armed it
\* disarms the tool and leaves the preview alone; otherwise it closes the
\* preview.
C9_EscapeStep ==
  (lastOp' = <<"Escape">> /\ previewDoc # Null) =>
    IF activeAnnotationId # NoId
    THEN /\ activeAnnotationId' = NoId
         /\ annotationText' = ""
         /\ activeTool' = activeTool
         /\ previewDoc' # Null
         /\ previewDoc'.uploadedAt = previewDoc.uploadedAt
    ELSE IF activeTool # NoTool
    THEN /\ activeTool' = NoTool
         /\ previewDoc' = previewDoc
         /\ UNCHANGED <<documents, activeAnnotationId, annotationText>>
    ELSE /\ previewDoc' = Null
         /\ UNCHANGED <<documents, activeTool, activeAnnotationId, annotationText>>

C9_EscapePriority == [][C9_EscapeStep]_vars

\* C9 witness: Escape has just cancelled an edit while a tool was armed: the
\* preview is still open and the tool still armed.
C9_Witness ==
  /\ lastOp = <<"Escape">>
  /\ previewDoc # Null
  /\ previewDoc.annotations # <<>>
  /\ activeAnnotationId = NoId
  /\ activeTool = "rect"

\* C10: handleOpenPreview, from any prior state, leaves zoom = 1,
\* rotation = 0, pan = (0, 0), no active annotation, no armed tool, an empty
\* PDF search query and no PDF search result.
C10_OpenResets ==
  lastOp = <<"handleOpenPreview">> =>
    /\ previewDoc # Null
    /\ zoom = ZoomDefault
    /\ rotation = 0
    /\ pan = [x |-> 0, y |-> 0]
    /\ activeAnnotationId = NoId
    /\ activeTool = NoTool
    /\ pdfSearchQuery = ""
    /\ pdfSearchResults = Null

\* C10 witness: the preview re-opened on a document annotated in an earlier
\* preview, with the pan-drag of that preview never released and its PDF
\* search still in flight.
C10_Witness ==
  /\ lastOp = <<"handleOpenPreview">>
  /\ previewDoc # Null
  /\ previewDoc.annotations # <<>>
  /\ isDraggingImage
  /\ dragStartPos # [x |-> PointerA.clientX, y |-> PointerA.clientY]
  /\ pendingSearches # <<>>

\* C11: once the preview is closed, or another document has just been
\* opened, no draw interaction is in progress: the draw state is Idle and no
\* preview geometry is pending.
C11_ClosedIsIdle ==
  (previewDoc = Null \/ lastOp = <<"handleOpenPreview">>) =>
    (~isDrawing /\ currentDraw = Null)

\* C12: zoom is always a multiple of 0.25 within [0.25, 5.0] (1..20 quarters)
\* and rotation one of 0, 90, 180, 270; zoomIn at 5.0 and zoomOut at 0.25
\* leave zoom unchanged; four consecutive rotate calls restore the rotation.
C12_ViewportRange ==
  /\ zoom \in 1..20
  /\ rotation \in {0, 90, 180, 270}
  /\ lastOp = <<"handleZoomIn", 1, 20>> => zoom = 20
  /\ lastOp = <<"handleZoomOut", 1, 1>> => zoom = 1
  /\ (lastOp[1] = "handleRotate" /\ lastOp[2] = 4) => rotation = lastOp[3]

\* C12 witness: a quarter-turned viewport zoomed in once more at 5.0.
C12_Witness ==
  /\ lastOp = <<"handleZoomIn", 1, 20>>
  /\ rotation = 270
  /\ previewDoc # Null

\* C13: from zoom 1.0 (4 quarters), five consecutive zoomIn calls give 2.25
\* (9 quarters) and twenty give exactly 5.0 (20 quarters): each call adds
\* 0.25 until the upper bound is reached and then has no effect.
C13_ZoomInRuns ==
  (lastOp[1] = "handleZoomIn" /\ lastOp[3] = 4) =>
    /\ lastOp[2] = 5 => zoom = 9
    /\ lastOp[2] = 20 => zoom = 20
    /\ lastOp[2] <= 16 => zoom = 4 + lastOp[2]
    /\ lastOp[2] >= 16 => zoom = 20

\* C13 witness: the twentieth zoomIn in a row after opening at zoom 1.0.
C13_Witness ==
  /\ lastOp = <<"handleZoomIn", 20, 4>>
  /\ previewDoc # Null

\* C14: toggleSort(c) keeps the criterion and flips the direction when c is
\* the active criterion; otherwise c becomes the criterion with direction
\* ascending for name and descending for date and expiry.  Hence
\* toggleSort(date), toggleSort(expiry), toggleSort(date) ends in
\* date/descending from any sort state.
C14_ToggleSort ==
  lastOp[1] = "toggleSort" =>
    LET h    == lastOp[2]
        n    == Len(h)
        last == h[n]
    IN  /\ sortCriterion = last.c
        /\ last.criterion = last.c =>
             sortDirection = (IF last.direction = "asc" THEN "desc" ELSE "asc")
        /\ last.criterion # last.c =>
             sortDirection = (IF last.c = "name" THEN "asc" ELSE "desc")
        /\ (n >= 3 /\ h[n - 2].c = "date" /\ h[n - 1].c = "expiry" /\ last.c = "date") =>
             (sortCriterion = "date" /\ sortDirection = "desc")

\* C14 witness: date, expiry, date toggled in a row, starting from
\* name/descending.
C14_Witness ==
  /\ lastOp[1] = "toggleSort"
  /\ Len(lastOp[2]) = 3
  /\ lastOp[2][1] = [c |-> "date", criterion |-> "name", direction |-> "desc"]
  /\ lastOp[2][2].c = "expiry"
  /\ lastOp[2][3].c = "date"

\* C15 as stated: from any reachable sort state, toggleSort(name) twice in a
\* row ends with criterion name and direction ascending.
C15_TwiceNameAscending ==
  (lastOp[1] = "toggleSort" /\ Len(lastOp[2]) >= 2
     /\ lastOp[2][Len(lastOp[2]) - 1].c = "name"
     /\ lastOp[2][Len(lastOp[2])].c = "name") =>
    (sortCriterion = "name" /\ sortDirection = "asc")

\* C15 amended: toggleSort(name) twice in a row ends with criterion name;
\* the direction is the one before the two calls when name was already the
\* active criterion (two flips), and descending otherwise (default ascending,
\* then one flip), the initial state date/descending included.
C15_TwiceName ==
  (lastOp[1] = "toggleSort" /\ Len(lastOp[2]) >= 2
     /\ lastOp[2][Len(lastOp[2]) - 1].c = "name"
     /\ lastOp[2][Len(lastOp[2])].c = "name") =>
    LET start == lastOp[2][Len(lastOp[2]) - 1]
    IN  /\ sortCriterion = "name"
        /\ sortDirection = IF start.criterion = "name" THEN start.direction ELSE "desc"

\* C15 witness: name toggled twice right after the upload, from the initial
\* date/descending.
C15_Witness ==
  /\ lastOp[1] = "toggleSort"
  /\ Len(lastOp[2]) = 2
  /\ lastOp[2][1] = [c |-> "name", criterion |-> "date", direction |-> "desc"]
  /\ lastOp[2][2].c = "name"
  /\ sortDirection = "desc"

\* how often d occurs in the sequence s
Occurrences(s, d) == Cardinality({ i \in 1..Len(s) : s[i] = d })

\* the key order the list puts on two documents, names compared by code units
LexicographicKeyOrder(a, b, criterion) ==
  IF criterion = "name" THEN CodeUnitCompare(Chars(a.name), Chars(b.name))
  ELSE IF criterion = "expiry" THEN a.expiresAt - b.expiresAt
  ELSE a.uploadedAt - b.uploadedAt

\* the documents are named b.pdf, a.pdf, c.pdf and uploaded at 1, 3, 2
ListExample ==
  /\ Len(documents) = 3
  /\ [i \in 1..3 |-> documents[i].name] = <<"b.pdf", "a.pdf", "c.pdf">>
  /\ [i \in 1..3 |-> documents[i].uploadedAt] = <<1, 3, 2>>

\* C16: sortedDocuments holds exactly the documents whose name contains the
\* search text regardless of case, each as often as the collection does, in
\* the order of the active criterion and direction, names in lexicographic
\* order; the documents b.pdf, a.pdf, c.pdf uploaded at 1, 3, 2 come out
\* a, b, c by name ascending and 3, 2, 1 by date descending.
C16_SortedDocuments ==
  /\ \A d \in Range(documents) :
        Occurrences(sortedDocuments, d) =
          IF Includes(ToLowerCase(Chars(d.name)), ToLowerCase(Chars(searchTerm)))
          THEN Occurrences(documents, d) ELSE 0
  /\ Range(sortedDocuments) \subseteq Range(documents)
  /\ \A i, j \in 1..Len(sortedDocuments) :
        i < j =>
          IF sortDirection = "asc"
          THEN LexicographicKeyOrder(sortedDocuments[i], sortedDocuments[j], sortCriterion) <= 0
          ELSE LexicographicKeyOrder(sortedDocuments[i], sortedDocuments[j], sortCriterion) >= 0
  /\ (ListExample /\ searchTerm = "") =>
        /\ (sortCriterion = "name" /\ sortDirection = "asc") =>
              [i \in 1..3 |-> sortedDocuments[i].name] = <<"a.pdf", "b.pdf", "c.pdf">>
        /\ (sortCriterion = "date" /\ sortDirection = "desc") =>
              [i \in 1..3 |-> sortedDocuments[i].uploadedAt] = <<3, 2, 1>>

\* the key order the list puts on two documents, names compared as
\* localeCompare does
CollationKeyOrder(a, b, criterion) ==
  IF criterion = "name" THEN LocaleCompare(a.name, b.name)
  ELSE IF criterion = "expiry" THEN a.expiresAt - b.expiresAt
  ELSE a.uploadedAt - b.uploadedAt

\* C16 amended: as C16, with names in the order of localeCompare (letters
\* regardless of case, lower case first among names equal up to case) in
\* place of the lexicographic order.
C16_SortedByCollation ==
  /\ \A d \in Range(documents) :
        Occurrences(sortedDocuments, d) =
          IF Includes(ToLowerCase(Chars(d.name)), ToLowerCase(Chars(searchTerm)))
          THEN Occurrences(documents, d) ELSE 0
  /\ Range(sortedDocuments) \subseteq Range(documents)
  /\ \A i, j \in 1..Len(sortedDocuments) :
        i < j =>
          IF sortDirection = "asc"
          THEN CollationKeyOrder(sortedDocuments[i], sortedDocuments[j], sortCriterion) <= 0
          ELSE CollationKeyOrder(sortedDocuments[i], sortedDocuments[j], sortCriterion) >= 0
  /\ (ListExample /\ searchTerm = "") =>
        /\ (sortCriterion = "name" /\ sortDirection = "asc") =>
              [i \in 1..3 |-> sortedDocuments[i].name] = <<"a.pdf", "b.pdf", "c.pdf">>
        /\ (sortCriterion = "date" /\ sortDirection = "desc") =>
              [i \in 1..3 |-> sortedDocuments[i].uploadedAt] = <<3, 2, 1>>

\* C16 witness: B.jpg, a.pdf, a.pdf searched for "PD" and sorted by name
\* ascending, or unsearched with B.jpg listed behind both a.pdf.
C16_Witness ==
  /\ Len(documents) = 3
  /\ documents[1].name = "B.jpg"
  /\ sortCriterion = "name"
  /\ sortDirection = "asc"
  /\ \/ searchTerm = "PD" /\ Len(sortedDocuments) = 2
     \/ searchTerm = "" /\ sortedDocuments[3].name = "B.jpg"

Reverse(s) == [i \in 1..Len(s) |-> s[Len(s) + 1 - i]]

\* the documents of s whose sort key equals that of d
SameKey(s, d, criterion) ==
  SeqFilter(s, LAMBDA e : CollationKeyOrder(e, d, criterion) = 0)

\* some two of the listed documents have equal sort keys
KeysTie(criterion) ==
  \E i, j \in 1..Len(ListedDocuments) :
    i # j /\ CollationKeyOrder(ListedDocuments[i], ListedDocuments[j], criterion) = 0

\* C17 as stated: for every criterion the descending list is the exact
\* reverse of the ascending list, equal sort keys included.
C17_DescendingIsReverse ==
  \A c \in SortCriteria :
    SortedBy(ListedDocuments, c, "desc") = Reverse(SortedBy(ListedDocuments, c, "asc"))

\* C17 amended: for every criterion the descending list is the exact reverse
\* of the ascending list when no two listed documents have equal sort keys;
\* documents with equal sort keys stand in collection order in both
\* directions, and the groups of equal keys are in opposite order.
C17_ReverseUpToTies ==
  \A c \in SortCriteria :
    LET asc  == SortedBy(ListedDocuments, c, "asc")
        desc == SortedBy(ListedDocuments, c, "desc")
    IN  /\ ~KeysTie(c) => desc = Reverse(asc)
        /\ \A d \in Range(ListedDocuments) :
              /\ SameKey(asc, d, c) = SameKey(ListedDocuments, d, c)
              /\ SameKey(desc, d, c) = SameKey(ListedDocuments, d, c)
        /\ \A i, j \in 1..Len(asc) :
              i < j => /\ CollationKeyOrder(asc[i], asc[j], c) <= 0
                       /\ CollationKeyOrder(desc[i], desc[j], c) >= 0

\* C17 witness: three documents listed in descending order, two of them
\* with the same upload time, and two of them with the same name.
C17_Witness ==
  /\ Len(sortedDocuments) = 3
  /\ sortDirection = "desc"
  /\ sortCriterion = "date"
  /\ KeysTie("date") /\ KeysTie("name")
  /\ sortedDocuments # Reverse(SortedBy(ListedDocuments, "date", "asc"))

\* C18: handleSelectAll clears the selection exactly when every listed
\* document is already selected, and otherwise makes the selection the set of
\* the identities of the listed documents.
C18_SelectAll ==
  lastOp[1] = "handleSelectAll" =>
    LET listed == { d.uploadedAt : d \in Range(sortedDocuments) }
    IN  selectedDocTimestamps = IF listed \subseteq lastOp[2] THEN {} ELSE listed

\* the text is empty or consists of spaces
Blank(text) == \A i \in 1..Len(Chars(text)) : Chars(text)[i] = 32

\* C19: applyBulkAnnotation with a text that is not blank and a selection
\* that is not empty appends exactly one pin at (5, 5) to each selected
\* document, all with the bulk text, the author and the time of the call;
\* the annotations there were, and the documents not selected, are
\* unchanged; afterwards the selection is empty and bulk mode is off.
C19_BulkApplied ==
  (lastOp[1] = "applyBulkAnnotation" /\ ~Blank(lastOp[2].text) /\ lastOp[2].selected # {}) =>
    LET before == lastOp[2]
    IN  /\ Len(documents) = Len(before.documents)
        /\ \A i \in 1..Len(documents) :
              LET old == before.documents[i]
                  new == documents[i]
              IN  IF old.uploadedAt \in before.selected
                  THEN /\ [new EXCEPT !.annotations = old.annotations] = old
                       /\ Len(new.annotations) = Len(old.annotations) + 1
                       /\ SubSeq(new.annotations, 1, Len(old.annotations)) = old.annotations
                       /\ LET pin == new.annotations[Len(new.annotations)]
                          IN  /\ pin.type = "pin"
                              /\ pin.x = RInt(5) /\ pin.y = RInt(5)
                              /\ pin.text = before.text
                              /\ pin.author = before.author
                              /\ pin.createdAt = before.now
                  ELSE new = old
        /\ selectedDocTimestamps = {}
        /\ ~isBulkMode

\* C19 witness: two documents uploaded at different times, both selected,
\* tagged in one call by the author Ann.
C19_Witness ==
  /\ lastOp[1] = "applyBulkAnnotation"
  /\ lastOp[2].text = "tag"
  /\ lastOp[2].author = "Ann"
  /\ Cardinality(lastOp[2].selected) = 2
  /\ Len(documents) = 2
  /\ Len(documents[1].annotations) = 1 /\ Len(documents[2].annotations) = 1

\* C20: applyBulkAnnotation with a blank text or an empty selection changes
\* nothing: no annotation is added and the selection, the bulk text and bulk
\* mode stay as they were.
C20_BulkRejected ==
  (lastOp[1] = "applyBulkAnnotation" /\ (Blank(lastOp[2].text) \/ lastOp[2].selected = {})) =>
    /\ documents = lastOp[2].documents
    /\ selectedDocTimestamps = lastOp[2].selected
    /\ bulkAnnotationText = lastOp[2].text
    /\ isBulkMode = lastOp[2].mode

\* C20 witness: a call with a text of one space, a document selected and
\* bulk mode on.
C20_Witness ==
  /\ lastOp[1] = "applyBulkAnnotation"
  /\ lastOp[2].text = " "
  /\ lastOp[2].selected # {}
  /\ isBulkMode

\* C21: the uploadedAt values of the documents of the collection are
\* pairwise distinct.
C21_DistinctUploadedAt ==
  \A i, j \in 1..Len(documents) :
    i # j => documents[i].uploadedAt # documents[j].uploadedAt

\* C22: every identity of the bulk selection is the uploadedAt of a document
\* of the collection; removeDocument(id) removes the documents of that
\* identity and takes id out of the selection in the same step, and leaves
\* the other documents and the other selected identities as they were.
C22_SelectionInCollection ==
  /\ selectedDocTimestamps \subseteq { d.uploadedAt : d \in Range(documents) }
  /\ lastOp[1] = "removeDocument" =>
        LET id     == lastOp[2]
            before == lastOp[3]
        IN  /\ \A d \in Range(documents) : d.uploadedAt # id
            /\ documents = SelectSeq(before.documents, LAMBDA d : d.uploadedAt # id)
            /\ selectedDocTimestamps = before.selected \ {id}

\* C22 witness: two documents were selected, one of them has been removed
\* and the other is still there and selected.
C22_Witness ==
  /\ lastOp[1] = "removeDocument"
  /\ lastOp[2] \in lastOp[3].selected
  /\ Len(lastOp[3].documents) = 2
  /\ Len(documents) = 1
  /\ selectedDocTimestamps = {documents[1].uploadedAt}

\* the annotation sequences of the documents of a collection
AnnotationsOf(docs) == [i \in 1..Len(docs) |-> docs[i].annotations]

\* C23: selecting, saving or deleting with an annotation id that is not in
\* the previewed document leaves the annotation sequences of all documents,
\* the active selection and the draft buffer as they were; deleteAnnotation
\* with such an id, as its second application is, changes nothing at all.
C23_StaleStep ==
  (/\ lastOp'[1] \in {"selectAnnotation", "saveAnnotationText", "deleteAnnotation"}
   /\ previewDoc # Null
   /\ lastOp'[2] # NoId
   /\ lastOp'[2] \notin AnnotationIds(previewDoc)) =>
    /\ AnnotationsOf(documents') = AnnotationsOf(documents)
    /\ activeAnnotationId' = activeAnnotationId
    /\ annotationText' = annotationText
    /\ lastOp'[1] = "deleteAnnotation" =>
          UNCHANGED <<docVars, annVars>>

SetText(docs, id, text) ==
  [i \in 1..Len(docs) |->
     [docs[i] EXCEPT !.annotations =
        [k \in 1..Len(@) |-> IF @[k].id = id THEN [@[k] EXCEPT !.text = text] ELSE @[k]]]]

\* C24: saveAnnotationText with an active annotation sets the text of that
\* annotation to the draft buffer and changes no other annotation and no
\* other field, adds the annotation to the collapsed set and clears the
\* active selection and the draft buffer; with no active annotation it
\* changes nothing.
C24_SaveStep ==
  lastOp'[1] = "saveAnnotationText" =>
    IF activeAnnotationId # NoId
    THEN /\ documents' = SetText(documents, activeAnnotationId, annotationText)
         /\ collapsedAnnotations' = collapsedAnnotations \cup {activeAnnotationId}
         /\ activeAnnotationId' = NoId
         /\ annotationText' = ""
         /\ UNCHANGED <<activeTool, storeFrame>>
    ELSE UNCHANGED <<docVars, annVars, storeFrame>>

C24_SaveFrame == [][C24_SaveStep]_vars

\* the collection without the annotation id
WithoutAnnotation(docs, id) ==
  [i \in 1..Len(docs) |->
     [docs[i] EXCEPT !.annotations = SelectSeq(@, LAMBDA a : a.id # id)]]

\* C25: deleteAnnotation(id) removes the annotation id from the previewed
\* document, in the preview and in the collection, and keeps all other
\* annotations in their order; the active selection and the draft buffer are
\* cleared when id was the active annotation and are unchanged otherwise.
C25_DeleteStep ==
  (lastOp'[1] = "deleteAnnotation" /\ previewDoc # Null) =>
    /\ previewDoc'.annotations = SelectSeq(previewDoc.annotations, LAMBDA a : a.id # lastOp'[2])
    /\ documents' = WithoutAnnotation(documents, lastOp'[2])
    /\ IF activeAnnotationId = lastOp'[2]
       THEN activeAnnotationId' = NoId /\ annotationText' = ""
       ELSE UNCHANGED <<activeAnnotationId, annotationText>>

C25_DeleteFrame == [][C25_DeleteStep]_vars

\* (eventX - rectLeft) / rectWidth * 100 and the same for y
Coordinate(e) ==
  LET rect == BoundingClientRect
  IN  [ x |-> RMul(RDiv(RSub(RInt(e.clientX), rect.left), rect.width), RInt(100)),
        y |-> RMul(RDiv(RSub(RInt(e.clientY), rect.top), rect.height), RInt(100)) ]

\* the coordinate lies outside 0..100 on both axes
Outside(p) ==
  /\ RLess(p.x, RInt(0)) \/ RLess(RInt(100), p.x)
  /\ RLess(p.y, RInt(0)) \/ RLess(RInt(100), p.y)

\* C26: the coordinate of a pointer event is (eventX - rectLeft) / rectWidth
\* * 100, and the same for y, without clamping: a pin is stored at the
\* coordinate of its pointer-down, a draw starts at it, a move sets the end of
\* an arrow to it and the corner and size of a rect from it, and the release
\* stores the geometry of the preview unchanged, inside 0..100 or not.
C26_CoordinateStep ==
  LET c == Coordinate(lastOp'[2])
  IN  /\ (lastOp'[1] = "handleMouseDownOnDoc" /\ activeTool = "pin") =>
            LET new == previewDoc'.annotations[Len(previewDoc'.annotations)]
            IN  new.x = c.x /\ new.y = c.y
      /\ (lastOp'[1] = "handleMouseDownOnDoc" /\ activeTool \in {"rect", "arrow"}) =>
            drawStart' = c
      /\ (lastOp'[1] = "handleMouseMoveOnDoc" /\ isDrawing /\ activeTool = "arrow") =>
            /\ currentDraw'.x = drawStart.x /\ currentDraw'.y = drawStart.y
            /\ currentDraw'.ex = c.x /\ currentDraw'.ey = c.y
      /\ (lastOp'[1] = "handleMouseMoveOnDoc" /\ isDrawing /\ activeTool = "rect") =>
            /\ currentDraw'.x = RMin(drawStart.x, c.x)
            /\ currentDraw'.y = RMin(drawStart.y, c.y)
            /\ currentDraw'.w = RAbs(RSub(c.x, drawStart.x))
            /\ currentDraw'.h = RAbs(RSub(c.y, drawStart.y))
      /\ (lastOp'[1] = "handleMouseUpOnDoc" /\ isDrawing /\ currentDraw # Null
            /\ activeTool # NoTool) =>
            LET new == documents'[1].annotations[Len(documents'[1].annotations)]
            IN  /\ Len(documents'[1].annotations) = Len(documents[1].annotations) + 1
                /\ new.x = currentDraw.x /\ new.y = currentDraw.y
                /\ new.width = currentDraw.w /\ new.height = currentDraw.h
                /\ new.endX = currentDraw.ex /\ new.endY = currentDraw.ey

C26_NoClamping == [][C26_CoordinateStep]_vars

\* C26 witness: a finished arrow in the collection that starts outside the
\* document element, below 0 on one axis and above 100 on the other.
C26_Witness ==
  /\ lastOp[1] = "handleMouseUpOnDoc"
  /\ Len(documents) = 1
  /\ Len(documents[1].annotations) = 1
  /\ LET a == documents[1].annotations[1]
     IN  /\ a.type = "arrow"
         /\ RLess(a.x, RInt(0)) /\ RLess(RInt(100), a.y)
         /\ a.endX # Undefined
         /\ ~Outside([x |-> a.endX, y |-> a.endY])

\* C27: a pointer-down with the pin tool on a point of the document content
\* stores the percentage coordinate of that point, whatever the zoom, the
\* rotation and the pan.
C27_ViewportStep ==
  (lastOp'[1] = "handleMouseDownOnDoc" /\ activeTool = "pin") =>
    LET new == previewDoc'.annotations[Len(previewDoc'.annotations)]
    IN  new.x = RInt(lastOp'[2].u) /\ new.y = RInt(lastOp'[2].v)

C27_ViewportIndependent == [][C27_ViewportStep]_vars

\* the documents of the collection whose names contain the search text
Matching == { d \in Range(documents) : NameMatches(d.name, searchTerm) }

\* C28: a successful submit hands to onSubmit exactly sortedDocuments: the
\* documents that match the search text, in the sort order of the list, each
\* as the collection holds it, annotations included.
C28_SubmitStep ==
  (lastOp' = <<"handleSubmit">> /\ submitted' # Null) =>
    LET docs == submitted'.documents
    IN  /\ docs = sortedDocuments
        /\ Range(docs) = Matching
        /\ \A d \in Matching : Occurrences(docs, d) = Occurrences(documents, d)
        /\ \A i, j \in 1..Len(docs) :
              i < j =>
                IF sortDirection = "asc"
                THEN CollationKeyOrder(docs[i], docs[j], sortCriterion) <= 0
                ELSE CollationKeyOrder(docs[i], docs[j], sortCriterion) >= 0

C28_SubmitsSortedDocuments == [][C28_SubmitStep]_vars

\* a submit while the search text hides an annotated document and the list
\* is not in upload order
C28_Witness ==
  /\ lastOp = <<"handleSubmit">>
  /\ submitted # Null
  /\ Len(submitted.documents) < Len(documents)
  /\ \E d \in Range(submitted.documents) : d.annotations # <<>>
  /\ submitted.phone = <<43, 50, 53, 52, 55, 49, 50>>

\* C29: while no document is open in the preview, a key of the keyboard
\* router leaves zoom, rotation, pan, the armed tool, the active annotation
\* and all documents unchanged.
C29_IdleStep ==
  (lastOp' = <<"handleKeyDown">> /\ previewDoc = Null) =>
    UNCHANGED <<zoom, rotation, pan, activeTool, activeAnnotationId, documents>>

C29_IdleKeysAreNoOps == [][C29_IdleStep]_vars

\* a key pressed over a closed preview that left a zoom, a rotation, a pan
\* and an annotation under edit behind
C29_Witness ==
  /\ lastOp = <<"handleKeyDown">>
  /\ previewDoc = Null
  /\ zoom # ZoomDefault
  /\ rotation # 0
  /\ pan # [x |-> 0, y |-> 0]
  /\ activeAnnotationId # NoId

\* C30: while an annotation is being edited, a character typed into the draft
\* text field changes the draft buffer only: zoom, rotation and pan stay
\* unchanged.
C30_TypeStep ==
  lastOp' = <<"typeInDraft">> =>
    /\ UNCHANGED <<zoom, rotation, pan>>
    /\ UNCHANGED <<docVars, activeTool, activeAnnotationId, collapsedAnnotations>>

C30_TypingKeepsViewport == [][C30_TypeStep]_vars

\* C31: the PDF search result shown in a preview is the answer to a search
\* issued for the previewed document.
C31_ResultOfPreviewed ==
  (previewDoc # Null /\ pdfSearchResults # Null) =>
    /\ pdfSearchResults.about.doc = previewDoc.uploadedAt
    /\ pdfSearchResults.about.data = previewDoc.data

\* the ids of the annotations held in the documents of a collection
HeldIds(docs) == UNION { AnnotationIds(d) : d \in Range(docs) }

\* C32: an annotation leaves the collection only through deleteAnnotation of
\* its id, cancelAnnotationEdit of it, or removeDocument of its document.
C32_DropStep ==
  \A id \in HeldIds(documents) \ HeldIds(documents') :
    \/ lastOp' = <<"deleteAnnotation", id>>
    \/ lastOp'[1] = "cancelAnnotationEdit" /\ activeAnnotationId = id
    \/ lastOp'[1] = "removeDocument"

C32_OnlyDeleteDrops == [][C32_DropStep]_vars

\* C33: addAnnotation, saveAnnotationText, cancelAnnotationEdit and
\* deleteAnnotation leave every record of the collection other than the
\* previewed document's unchanged.
C33_OthersStep ==
  (lastOp'[1] \in {"addAnnotation", "saveAnnotationText", "cancelAnnotationEdit",
                   "deleteAnnotation"} /\ previewDoc # Null) =>
    /\ Len(documents') = Len(documents)
    /\ \A i \in 1..Len(documents) :
          documents[i].data # previewDoc.data => documents'[i] = documents[i]

C33_OthersUnchanged == [][C33_OthersStep]_vars

\* the fields of its type that an annotation has, and no others
ShapeFields(a) ==
  /\ a.type = "arrow" =>
        /\ a.endX # Undefined /\ a.endY # Undefined
        /\ a.width = Undefined /\ a.height = Undefined
  /\ a.type = "pin" =>
        /\ a.width = Undefined /\ a.height = Undefined
        /\ a.endX = Undefined /\ a.endY = Undefined

\* C34: every arrow has endX and endY and neither width nor height, every
\* pin has none of width, height, endX, endY.
C34_ShapeFields ==
  /\ \A d \in Range(documents) : \A a \in Range(d.annotations) : ShapeFields(a)
  /\ previewDoc # Null => \A a \in Range(previewDoc.annotations) : ShapeFields(a)

\* C35: while a preview is open, the active annotation id is the id of an
\* annotation of the previewed document.
C35_ActiveInPreview ==
  (previewDoc # Null /\ activeAnnotationId # NoId) =>
    activeAnnotationId \in AnnotationIds(previewDoc)

\* the second annotation is under edit after the first one was deleted
C35_Witness ==
  /\ previewDoc # Null
  /\ activeAnnotationId = Id(2)
  /\ AnnotationIds(previewDoc) = {Id(2)}

\* C36: whenever bulk mode is off, no document is selected.
C36_NoSelectionOutsideBulk == ~isBulkMode => selectedDocTimestamps = {}

\* C37: every document of the collection has a size of at most
\* MAX_FILE_SIZE_BYTES and a MIME type of ALLOWED_MIME_TYPES.
C37_DocumentsAreValid ==
  \A d \in Range(documents) :
    /\ d.size <= MAX_FILE_SIZE_BYTES
    /\ d.type \in ALLOWED_MIME_TYPES

\* the read of a file of the batch in flight has completed successfully
Loaded(file) ==
  \E b \in 1..Len(batches) : \E i \in 1..Len(batches[b].reads) :
    batches[b].reads[i].file = file /\ batches[b].reads[i].status = "loaded"

\* the collection holds the file as a document without annotations
Added(file) ==
  \E d \in Range(documents) :
    d.name = file.name /\ d.data = file.content /\ d.annotations = <<>>

\* the entries of uploadingFiles are those of the reads still under way
OnlyReadsUnderWay ==
  { f.id : f \in Range(uploadingFiles) } =
    UNION { { r.id : r \in { q \in Range(batch.reads) : q.status = "reading" } } :
              batch \in Range(batches) }

\* C38: a valid file of a batch whose read completes is eventually a document
\* of the collection with no annotations, and the uploading list holds no
\* entry of a read that has settled.
C38_LoadedIsAdded ==
  /\ \A file \in {PdfA, PdfB, PdfC, JpgB} : Loaded(file) ~> Added(file)
  /\ []OnlyReadsUnderWay

\* C39: at most one chat request is in flight; one is in flight exactly while
\* isLoading, and none while the intake form is visible.
C39_OneRequestInFlight ==
  /\ Len(chatRequests) <= 1
  /\ isLoading <=> chatRequests # <<>>
  /\ chatRequests # <<>> => ~showIntakeForm

\* the follow-up request of a submitted form is in flight, after a chat
\* message that was dictated
C39_Witness ==
  /\ chatRequests = <<[kind |-> "followUp"]>>
  /\ isLoading
  /\ \E k \in 1..Len(messages) : messages[k] = [sender |-> "user", text |-> "note"]

====
